---- MODULE Spec2Model ----
(***************************************************************************)
(* Model of the spark-stock product-configuration backend:                 *)
(*   - the ProductConfiguration table and its unique (shop, productId)     *)
(*     index (prisma schema + initial migration),                          *)
(*   - the /app/nostock route: loader (list configured products) and       *)
(*     action (save the out-of-stock block with prisma upsert),            *)
(*   - the /api/product/config loader (get single config),                 *)
(*   - the /api/products/search loader and the /api/products/details       *)
(*     loader, which call the Shopify catalog through admin.graphql.       *)
(*   - the BackInStockSubscription table with the tracker operations on    *)
(*     it, and the ShopSettings table with the resolution of the           *)
(*     effective warranty configuration.                                   *)
(***************************************************************************)
EXTENDS Integers, Sequences, FiniteSets, TLC

\* ------------------------------------------------------------------------
\* Bounds of the model
\* ------------------------------------------------------------------------
MaxClock == 1      \* timestamps run over 0..MaxClock
MaxId == 2         \* autoincrement ids handed out are <= MaxId
MaxParamLen == 5   \* pieces in the ids query parameter
MaxEdges == 2      \* products in one catalog search result
MaxSubs == 2       \* subscription ids handed out are <= MaxSubs

\* ------------------------------------------------------------------------
\* Nullable values: null is the empty tuple, a present value v is <<v>>
\* ------------------------------------------------------------------------
Null == << >>
Some(v) == << v >>
Val(x) == x[1]

\* Truthy with the empty string taken for a value
TruthyNonNull(x) == x # Null

\* JavaScript truthiness of a string-or-null (!x is its negation)
Truthy(x) == x # Null /\ Val(x) # ""

Shops == {"a.myshopify.com", "b.myshopify.com"}
ProductIds == {"gid://shopify/Product/1", "gid://shopify/Product/2"}
\* The two save requests that run concurrently
Requests == {"r1", "r2"}

\* ------------------------------------------------------------------------
\* model ProductConfiguration: the three feature blocks
\* ------------------------------------------------------------------------
NoStockFields == {"noStockEnabled", "noStockButtonText", "noStockButtonColor",
                  "noStockNotifyFormEnabled", "noStockTimerEnabled",
                  "noStockRestockDate", "noStockRecommendationsEnabled",
                  "noStockRecommendedProductGids"}

PreorderFields == {"preorderEnabled", "preorderButtonText", "preorderButtonColor",
                   "preorderEndDate", "preorderPaymentType",
                   "preorderPartialPaymentValue", "preorderTerms",
                   "preorderTermsDisplay"}

WarrantyFields == {"warrantyEnabledOverride", "warrantyPresentationOverride",
                   "warrantyPriceType", "warrantyPriceValue", "warrantyVariantId"}

KeyFields == {"id", "shop", "productId"}

\* Column defaults applied by the table when an insert omits the column
ColumnDefaults ==
  [ noStockEnabled |-> FALSE,
    noStockButtonText |-> Null,
    noStockButtonColor |-> Null,
    noStockNotifyFormEnabled |-> TRUE,
    noStockTimerEnabled |-> FALSE,
    noStockRestockDate |-> Null,
    noStockRecommendationsEnabled |-> FALSE,
    noStockRecommendedProductGids |-> Null,
    preorderEnabled |-> FALSE,
    preorderButtonText |-> Null,
    preorderButtonColor |-> Null,
    preorderEndDate |-> Null,
    preorderPaymentType |-> Some("FULL"),
    preorderPartialPaymentValue |-> Null,
    preorderTerms |-> Null,
    preorderTermsDisplay |-> Some("INLINE"),
    warrantyEnabledOverride |-> Null,
    warrantyPresentationOverride |-> Null,
    warrantyPriceType |-> Some("GLOBAL_PERCENTAGE"),
    warrantyPriceValue |-> Null,
    warrantyVariantId |-> Null ]

\* Restriction of a record to a set of its fields
Block(r, fields) == [f \in fields |-> r[f]]

\* Record a overridden by the fields of record b
Merge(a, b) == [f \in DOMAIN a \cup DOMAIN b |-> IF f \in DOMAIN b THEN b[f] ELSE a[f]]

\* A row written earlier through the preorder and warranty features of the
\* same table: its preorder and warranty blocks hold non-default values.
\* (Of the two timestamp columns the rows carry updatedAt, the one the routes
\* read; createdAt is written once and never read.)
SeedRow ==
  Merge(ColumnDefaults,
  [ id |-> 1,
    shop |-> "a.myshopify.com",
    productId |-> "gid://shopify/Product/1",
    noStockEnabled |-> TRUE,
    noStockButtonText |-> Some("Seed"),
    preorderEnabled |-> TRUE,
    preorderButtonText |-> Some("Preorder now"),
    preorderButtonColor |-> Some("#00FF00"),
    preorderEndDate |-> Some(20260301),
    preorderPaymentType |-> Some("PARTIAL_PERCENTAGE"),
    preorderPartialPaymentValue |-> Some(30),
    preorderTerms |-> Some("Ships in March"),
    preorderTermsDisplay |-> Some("POPUP"),
    warrantyEnabledOverride |-> Some(TRUE),
    warrantyPresentationOverride |-> Some("EMBED"),
    warrantyPriceType |-> Some("PRODUCT_FIXED"),
    warrantyPriceValue |-> Some(15),
    warrantyVariantId |-> Some("gid://shopify/ProductVariant/9"),
    updatedAt |-> 0 ])

\* ------------------------------------------------------------------------
\* Save action: decoding of the submitted form
\* ------------------------------------------------------------------------

\* new Date(s).getTime() for the strings the model submits: the two ISO
\* strings parse to a date (written yyyymmdd), every other string gives NaN,
\* which is represented by Null.
DateOf(s) ==
  CASE s = "2025-12-24T00:00:00.000Z" -> Some(20251224)
    [] s = "2026-01-15T00:00:00.000Z" -> Some(20260115)
    [] OTHER -> Null

\* parseDate without the isNaN test: a string that is no date is handed on
\* as a date
parseDateUnchecked(dateString) ==
  IF ~Truthy(dateString) THEN Null
  ELSE IF DateOf(Val(dateString)) = Null THEN Some(0)
  ELSE DateOf(Val(dateString))

\* parseDate: null for a missing or empty entry and for an invalid date
parseDate(dateString) ==
  IF ~Truthy(dateString) THEN Null ELSE DateOf(Val(dateString))

\* formData.get(k) as string || null
StringOrNull(x) == IF Truthy(x) THEN x ELSE Null

\* IsOn that takes every entry present in the form for a checked box
IsPresent(x) == x # Null

\* formData.get(k) === "on"
IsOn(x) == x = Some("on")

\* configData built from session.shop and the form
ConfigData(shop, form) ==
  [ shop |-> shop,
    productId |-> Val(form.productId),
    noStockEnabled |-> IsOn(form.noStockEnabled),
    noStockButtonText |-> StringOrNull(form.noStockButtonText),
    noStockButtonColor |-> StringOrNull(form.noStockButtonColor),
    noStockNotifyFormEnabled |-> IsOn(form.noStockNotifyFormEnabled),
    noStockTimerEnabled |-> IsOn(form.noStockTimerEnabled),
    noStockRestockDate |-> parseDate(form.noStockRestockDate),
    noStockRecommendationsEnabled |-> IsOn(form.noStockRecommendationsEnabled),
    noStockRecommendedProductGids |-> StringOrNull(form.noStockRecommendedProductGids) ]

\* The out-of-stock parts of the forms the model submits
FormBodies ==
  { [ noStockEnabled |-> Some("on"),
      noStockButtonText |-> Some("Notify me"),
      noStockButtonColor |-> Some("#FF0000"),
      noStockNotifyFormEnabled |-> Some("on"),
      noStockTimerEnabled |-> Some("on"),
      noStockRestockDate |-> Some("2025-12-24T00:00:00.000Z"),
      noStockRecommendationsEnabled |-> Some("on"),
      noStockRecommendedProductGids |-> Some("gid://shopify/Product/2") ],
    [ noStockEnabled |-> Some("on"),
      noStockButtonText |-> Some(""),
      noStockButtonColor |-> Null,
      noStockNotifyFormEnabled |-> Some("true"),
      noStockTimerEnabled |-> Null,
      noStockRestockDate |-> Some("not-a-date"),
      noStockRecommendationsEnabled |-> Null,
      noStockRecommendedProductGids |-> Null ] }

\* The productId entries the model submits: missing, empty, or a product id
ProductIdParams == {Null, Some("")} \cup {Some(p) : p \in ProductIds}

Forms == { Merge(b, [productId |-> p]) : b \in FormBodies, p \in ProductIdParams }

\* ------------------------------------------------------------------------
\* The ProductConfiguration table
\* ------------------------------------------------------------------------

\* RowsOf matching on the productId alone
RowsOfAnyShop(st, shop, productId) == {r \in st : r.productId = productId}

\* Rows matching the compound key shop_productId
RowsOf(st, shop, productId) == {r \in st : r.shop = shop /\ r.productId = productId}

\* prisma.productConfiguration.findUnique({where: {shop_productId}})
FindUnique(st, shop, productId) ==
  IF RowsOf(st, shop, productId) = {} THEN Null
  ELSE Some(CHOOSE r \in RowsOf(st, shop, productId) : TRUE)

\* UniqueViolation of a table created without the unique index
UniqueViolationNoIndex(st, shop, productId) == FALSE

\* CREATE UNIQUE INDEX "ProductConfiguration_shop_productId_key": an insert
\* of a row whose (shop, productId) is already present is rejected
UniqueViolation(st, shop, productId) == RowsOf(st, shop, productId) # {}

\* CreateRow over a table whose preorderEnabled column defaults to true
CreateRowPreorderOn(data, id, now) ==
  Merge(Merge(Merge(ColumnDefaults, [preorderEnabled |-> TRUE]), data),
        [id |-> id, updatedAt |-> now])

\* The row inserted by upsert's create branch: the supplied columns, the
\* column defaults for the others, autoincrement id, updatedAt = now
CreateRow(data, id, now) ==
  Merge(Merge(ColumnDefaults, data), [id |-> id, updatedAt |-> now])

\* UpdateRow that skips the nullable columns supplied as null: they keep
\* the value the row held
UpdateRowSkipNull(row, data, now) ==
  Merge([f \in DOMAIN row |->
           IF f \in {"noStockButtonText", "noStockButtonColor",
                     "noStockRestockDate", "noStockRecommendedProductGids"}
              /\ f \in DOMAIN data /\ data[f] = Null
           THEN row[f]
           ELSE IF f \in DOMAIN data THEN data[f] ELSE row[f]],
        [updatedAt |-> now])

\* UpdateRow that writes the row afresh: columns not supplied fall back to
\* their defaults
UpdateRowReplace(row, data, now) == CreateRow(data, row.id, now)

\* The row left by upsert's update branch: only the supplied columns and
\* updatedAt (@updatedAt) change
UpdateRow(row, data, now) ==
  Merge(Merge(row, data), [updatedAt |-> now])

\* OrderingsDesc with orderBy: {updatedAt: 'asc'}
RECURSIVE OrderingsAsc(_)
OrderingsAsc(S) ==
  IF S = {} THEN { << >> }
  ELSE UNION { { <<r>> \o t : t \in OrderingsAsc(S \ {r}) } :
               r \in {x \in S : \A y \in S : x.updatedAt <= y.updatedAt} }

\* findMany({where: {shop}, orderBy: {updatedAt: 'desc'}}): every ordering of
\* the shop's rows by updatedAt descending (rows with equal updatedAt come in
\* an order the database chooses)
RECURSIVE OrderingsDesc(_)
OrderingsDesc(S) ==
  IF S = {} THEN { << >> }
  ELSE UNION { { <<r>> \o t : t \in OrderingsDesc(S \ {r}) } :
               r \in {x \in S : \A y \in S : y.updatedAt <= x.updatedAt} }

FindManyByShop(st, shop) == OrderingsDesc({r \in st : r.shop = shop})

\* configuredProducts.map(p => p.productId)
MapProductId(rows) == [i \in 1..Len(rows) |-> rows[i].productId]

\* ------------------------------------------------------------------------
\* State
\* ------------------------------------------------------------------------
VARIABLES
  store,      \* the rows of the ProductConfiguration table
  nextId,     \* next autoincrement id of the table
  clock,      \* the current time, stamped into updatedAt
  dbUp,       \* whether the storage answers queries
  inflight,   \* the concurrent save requests: where each is in the action
  last,       \* the step a handler took last, with the response it returned
  lastWrite,  \* per (shop, productId): the configData of the save that wrote last
  http,       \* the last request to a catalog route, with its response
  submitted,  \* the form whose decoding is examined, once drawn
  subs,       \* the rows of the BackInStockSubscription table
  nextSubId,  \* next autoincrement id of that table
  settings,   \* the rows of the ShopSettings table
  resolution, \* the warranty configuration resolved last
  page        \* the /app/nostock page open in a browser: React state and fetchers

formVars == << submitted >>
trackerVars == << subs, nextSubId >>
warrantyVars == << settings, resolution >>
pageVars == << page >>

vars == << store, nextId, clock, dbUp, inflight, last, lastWrite, http,
           submitted, subs, nextSubId, settings, resolution, page >>

Idle == [pc |-> "idle", data |-> Null, found |-> Null]

\* A handler step that returned no response
NoResponse == [op |-> "none", req |-> "", shop |-> "", productId |-> Null,
               data |-> Null, status |-> 0, body |-> Null, dbRead |-> FALSE]

\* The response of a handler: the operation and request it answers, the
\* session shop, the productId received, the configData decoded (save only),
\* the HTTP status and body, and whether the handler queried the store
Response(op, req, shop, productId, data, status, body, dbRead) ==
  [op |-> op, req |-> req, shop |-> shop, productId |-> productId,
   data |-> data, status |-> status, body |-> body, dbRead |-> dbRead]

NoRequest == [route |-> "none", input |-> Null, asked |-> << >>,
              result |-> Null, status |-> 0, body |-> Null]

InitStores == { {}, {SeedRow} }

\* The routes at start: no request in flight, nothing answered yet
InitRoutes ==
  /\ clock = 0
  /\ dbUp = TRUE
  /\ inflight = [r \in Requests |-> Idle]
  /\ last = NoResponse
  /\ lastWrite = [k \in Shops \X ProductIds |-> Null]
  /\ http = NoRequest

\* The ProductConfiguration table at start
InitStore ==
  /\ store \in InitStores
  /\ nextId = Cardinality(store) + 1

\* The BackInStockSubscription table at start: empty
InitTracker ==
  /\ subs = {}
  /\ nextSubId = 1

\* The ShopSettings table at start: empty, nothing resolved
InitWarranty ==
  /\ settings = {}
  /\ resolution = Null

\* No page is open
NoPage == Null

Init ==
  /\ InitRoutes
  /\ InitStore
  /\ submitted = Null
  /\ InitTracker
  /\ InitWarranty
  /\ page = NoPage

\* ------------------------------------------------------------------------
\* /app/nostock action: save the out-of-stock block
\* ------------------------------------------------------------------------

\* json({ error: "Product ID is required" }, { status: 400 })
SaveRejected(req, shop, form) ==
  Response("save", req, shop, form.productId, Null, 400,
           [error |-> "Product ID is required"], FALSE)

\* json({ success: true })
SaveSucceeded(req, data) ==
  Response("save", req, data.shop, Some(data.productId), Some(data), 200,
           [success |-> TRUE], TRUE)

\* catch (error): json({ error: errorMessage }, { status: 500 })
SaveFailed(req, data, message) ==
  Response("save", req, data.shop, Some(data.productId), Some(data), 500,
           [error |-> message], TRUE)

UniqueMessage == "Unique constraint failed on the fields: (shop, productId)"
StorageMessage == "Can't reach database server"

\* The out-of-stock values a successful save wrote, kept per (shop, productId)
RecordWrite(data) ==
  lastWrite' = [lastWrite EXCEPT ![<<data.shop, data.productId>>] =
                  Some(Block(data, NoStockFields))]

\* A new row enters the table under the next autoincrement id
AddRow(req, data) ==
  /\ nextId <= MaxId
  /\ store' = store \cup {CreateRow(data, nextId, clock)}
  /\ nextId' = nextId + 1
  /\ last' = SaveSucceeded(req, data)
  /\ RecordWrite(data)

\* InsertRow that is not checked against the unique index
InsertRowUnchecked(req, data) == AddRow(req, data)

\* A plain INSERT: the unique index rejects a second row for the key
InsertRow(req, data) ==
  IF UniqueViolation(store, data.shop, data.productId)
  THEN /\ last' = SaveFailed(req, data, UniqueMessage)
       /\ UNCHANGED << store, nextId, lastWrite >>
  ELSE AddRow(req, data)

\* UPDATE of upsert's update branch
ModifyRow(req, row, data) ==
  /\ store' = (store \ {row}) \cup {UpdateRow(row, data, clock)}
  /\ UNCHANGED nextId
  /\ last' = SaveSucceeded(req, data)
  /\ RecordWrite(data)

\* Upsert replaced by a plain create
UpsertAsCreate(req, data) == InsertRow(req, data)

\* prisma.productConfiguration.upsert({where, update, create}) run by the
\* database as one statement, INSERT ... ON CONFLICT (shop, productId) DO
\* UPDATE: the unique index detects the conflict, which turns the insert
\* into the update of the row under the key
Upsert(req, data) ==
  IF UniqueViolation(store, data.shop, data.productId)
  THEN ModifyRow(req, Val(FindUnique(store, data.shop, data.productId)), data)
  ELSE AddRow(req, data)

\* Save that rejects a missing productId only, not an empty one
SaveNullCheck(shop, form) ==
  /\ IF form.productId = Null
     THEN /\ last' = SaveRejected("", shop, form)
          /\ UNCHANGED << store, nextId, lastWrite >>
     ELSE IF ~dbUp
     THEN /\ last' = SaveFailed("", ConfigData(shop, form), StorageMessage)
          /\ UNCHANGED << store, nextId, lastWrite >>
     ELSE Upsert("", ConfigData(shop, form))
  /\ UNCHANGED << clock, dbUp, inflight, http >>
  /\ UNCHANGED << formVars, trackerVars, warrantyVars, pageVars >>

\* The body of the action: what it does to the table and what it answers
SaveRequest(shop, form) ==
  IF ~Truthy(form.productId)
  THEN /\ last' = SaveRejected("", shop, form)
       /\ UNCHANGED << store, nextId, lastWrite >>
  ELSE IF ~dbUp
  THEN /\ last' = SaveFailed("", ConfigData(shop, form), StorageMessage)
       /\ UNCHANGED << store, nextId, lastWrite >>
  ELSE Upsert("", ConfigData(shop, form))

\* The whole action for one request, no other request running meanwhile
Save(shop, form) ==
  /\ SaveRequest(shop, form)
  /\ UNCHANGED << clock, dbUp, inflight, http >>
  /\ UNCHANGED << formVars, trackerVars, warrantyVars, pageVars >>

\* The action of a concurrent request up to its await on the database:
\* authenticate, read the form, reject a missing productId, build configData
SaveBegin(req, shop, form) ==
  /\ inflight[req].pc = "idle"
  /\ IF ~Truthy(form.productId)
     THEN /\ last' = SaveRejected(req, shop, form)
          /\ UNCHANGED inflight
     ELSE /\ inflight' = [inflight EXCEPT ![req] =
                            [pc |-> "upsert", data |-> Some(ConfigData(shop, form)),
                             found |-> Null]]
          /\ last' = NoResponse
  /\ UNCHANGED << store, nextId, clock, dbUp, lastWrite, http >>
  /\ UNCHANGED << formVars, trackerVars, warrantyVars, pageVars >>

\* The upsert of a concurrent request run by the database as one statement
\* (INSERT ... ON CONFLICT (shop, productId) DO UPDATE)
SaveUpsert(req) ==
  /\ inflight[req].pc = "upsert"
  /\ dbUp
  /\ Upsert(req, Val(inflight[req].data))
  /\ inflight' = [inflight EXCEPT ![req] = Idle]
  /\ UNCHANGED << clock, dbUp, http >>
  /\ UNCHANGED << formVars, trackerVars, warrantyVars, pageVars >>

\* The upsert of a concurrent request run by the client as a read followed
\* by a write: first the read of the row under the compound key ...
SaveSelect(req) ==
  /\ inflight[req].pc = "upsert"
  /\ dbUp
  /\ LET data == Val(inflight[req].data)
     IN inflight' = [inflight EXCEPT ![req] =
                       [pc |-> "write", data |-> Some(data),
                        found |-> FindUnique(store, data.shop, data.productId)]]
  /\ last' = NoResponse
  /\ UNCHANGED << store, nextId, clock, dbUp, lastWrite, http >>
  /\ UNCHANGED << formVars, trackerVars, warrantyVars, pageVars >>

\* ... then the insert when the read found no row, else the update of the
\* row the read found
SaveWrite(req) ==
  /\ inflight[req].pc = "write"
  /\ dbUp
  /\ LET data == Val(inflight[req].data)
         found == inflight[req].found
     IN IF found = Null
        THEN InsertRow(req, data)
        ELSE ModifyRow(req, CHOOSE r \in store : r.id = Val(found).id, data)
  /\ inflight' = [inflight EXCEPT ![req] = Idle]
  /\ UNCHANGED << clock, dbUp, http >>
  /\ UNCHANGED << formVars, trackerVars, warrantyVars, pageVars >>

\* The storage is unavailable when a concurrent request reaches it
SaveStorageError(req) ==
  /\ inflight[req].pc \in {"upsert", "write"}
  /\ ~dbUp
  /\ last' = SaveFailed(req, Val(inflight[req].data), StorageMessage)
  /\ inflight' = [inflight EXCEPT ![req] = Idle]
  /\ UNCHANGED << store, nextId, lastWrite, clock, dbUp, http >>
  /\ UNCHANGED << formVars, trackerVars, warrantyVars, pageVars >>

\* A shop identifier that is no shop domain
MalformedShops == {"not-a-shop"}

\* authenticate.admin(request): a session for the shop of the request, none
\* when the shop identifier is malformed
Authenticate(shop) == IF shop \in Shops THEN Some([shop |-> shop]) ELSE Null

\* The action for a request that authenticate.admin turns away: it ends
\* before the form is read
SaveRefused(shop) ==
  /\ Authenticate(shop) = Null
  /\ last' = Response("save", "", shop, Null, Null, 400,
                      [error |-> "Invalid shop"], FALSE)
  /\ UNCHANGED << store, nextId, clock, dbUp, inflight, lastWrite, http >>
  /\ UNCHANGED << formVars, trackerVars, warrantyVars, pageVars >>

\* GetConfig that answers 404 when the product has no configuration
GetConfigNotFound(shop, productId) ==
  /\ last' =
       IF ~Truthy(productId)
       THEN Response("get", "", shop, productId, Null, 400,
                     [error |-> "Product ID is required"], FALSE)
       ELSE IF ~dbUp
       THEN Response("get", "", shop, productId, Null, 500,
                     [error |-> "Failed to fetch configuration"], TRUE)
       ELSE IF FindUnique(store, shop, Val(productId)) = Null
       THEN Response("get", "", shop, productId, Null, 404,
                     [error |-> "Configuration not found"], TRUE)
       ELSE Response("get", "", shop, productId, Null, 200,
                     [config |-> FindUnique(store, shop, Val(productId))], TRUE)
  /\ UNCHANGED << store, nextId, clock, dbUp, inflight, lastWrite, http >>
  /\ UNCHANGED << formVars, trackerVars, warrantyVars, pageVars >>

\* ------------------------------------------------------------------------
\* /api/product/config loader: get single config
\* ------------------------------------------------------------------------
\* What the loader answers
ConfigResponse(shop, productId) ==
  IF ~Truthy(productId)
  THEN Response("get", "", shop, productId, Null, 400,
                [error |-> "Product ID is required"], FALSE)
  ELSE IF dbUp
  THEN Response("get", "", shop, productId, Null, 200,
                [config |-> FindUnique(store, shop, Val(productId))], TRUE)
  ELSE Response("get", "", shop, productId, Null, 500,
                [error |-> "Failed to fetch configuration"], TRUE)

GetConfig(shop, productId) ==
  /\ last' = ConfigResponse(shop, productId)
  /\ UNCHANGED << store, nextId, clock, dbUp, inflight, lastWrite, http >>
  /\ UNCHANGED << formVars, trackerVars, warrantyVars, pageVars >>

\* ------------------------------------------------------------------------
\* /app/nostock loader: list configured products
\* ------------------------------------------------------------------------

\* ListConfigured whose catch answers with an empty list and no error
ListConfiguredSwallow(shop) ==
  /\ IF dbUp
     THEN \E rows \in FindManyByShop(store, shop) :
            last' = Response("list", "", shop, Null, Null, 200,
                             [configuredProductIds |-> MapProductId(rows)], TRUE)
     ELSE last' = Response("list", "", shop, Null, Null, 200,
                           [configuredProductIds |-> << >>], TRUE)
  /\ UNCHANGED << store, nextId, clock, dbUp, inflight, lastWrite, http >>
  /\ UNCHANGED << formVars, trackerVars, warrantyVars, pageVars >>

ListConfigured(shop) ==
  /\ IF dbUp
     THEN \E rows \in FindManyByShop(store, shop) :
            last' = Response("list", "", shop, Null, Null, 200,
                             [configuredProductIds |-> MapProductId(rows)], TRUE)
     ELSE last' = Response("list", "", shop, Null, Null, 500,
                           [configuredProductIds |-> << >>,
                            loaderError |-> StorageMessage], TRUE)
  /\ UNCHANGED << store, nextId, clock, dbUp, inflight, lastWrite, http >>
  /\ UNCHANGED << formVars, trackerVars, warrantyVars, pageVars >>

\* ------------------------------------------------------------------------
\* Environment of the store
\* ------------------------------------------------------------------------
Tick ==
  /\ clock < MaxClock
  /\ clock' = clock + 1
  /\ last' = NoResponse
  /\ UNCHANGED << store, nextId, dbUp, inflight, lastWrite, http >>
  /\ UNCHANGED << formVars, trackerVars, warrantyVars, pageVars >>

StorageDown ==
  /\ dbUp
  /\ dbUp' = FALSE
  /\ last' = NoResponse
  /\ UNCHANGED << store, nextId, clock, inflight, lastWrite, http >>
  /\ UNCHANGED << formVars, trackerVars, warrantyVars, pageVars >>

StorageUp ==
  /\ ~dbUp
  /\ dbUp' = TRUE
  /\ last' = NoResponse
  /\ UNCHANGED << store, nextId, clock, inflight, lastWrite, http >>
  /\ UNCHANGED << formVars, trackerVars, warrantyVars, pageVars >>

\* Requests handled one at a time
Next ==
  \/ \E shop \in Shops, form \in Forms : Save(shop, form)
  \/ \E shop \in MalformedShops : SaveRefused(shop)
  \/ \E shop \in Shops, productId \in ProductIdParams : GetConfig(shop, productId)
  \/ \E shop \in Shops : ListConfigured(shop)
  \/ Tick
  \/ StorageDown
  \/ StorageUp

Spec == Init /\ [][Next]_vars

\* Two save requests interleaved at their awaits on the database
ConcForms == {f \in Forms : f.productId \in {Null, Some("gid://shopify/Product/1")}}

NextConc ==
  \/ \E req \in Requests, shop \in Shops, form \in ConcForms : SaveBegin(req, shop, form)
  \/ \E req \in Requests : SaveUpsert(req)
  \/ \E req \in Requests : SaveSelect(req)
  \/ \E req \in Requests : SaveWrite(req)
  \/ \E req \in Requests : SaveStorageError(req)
  \/ Tick
  \/ StorageDown
  \/ StorageUp

SpecConc == Init /\ [][NextConc]_vars

\* ------------------------------------------------------------------------
\* The Shopify catalog behind admin.graphql
\* ------------------------------------------------------------------------

\* What a call of admin.graphql can come to: it throws, the HTTP response is
\* not ok, the body carries GraphQL errors, the body carries no data, or the
\* body carries data (nodes: what the query selected)
CatalogResult(kind, status, nodes) == [kind |-> kind, status |-> status, nodes |-> nodes]

FailureResults ==
  { CatalogResult("throws", 0, << >>),
    CatalogResult("notOk", 401, << >>),
    CatalogResult("notOk", 503, << >>),
    CatalogResult("errors", 200, << >>),
    CatalogResult("noData", 200, << >>) }

\* Sequences over S of length at most n
RECURSIVE SeqsUpTo(_, _)
SeqsUpTo(S, n) ==
  IF n = 0 THEN { << >> }
  ELSE LET shorter == SeqsUpTo(S, n - 1)
       IN shorter \cup { Append(q, x) : q \in shorter, x \in S }

\* ------------------------------------------------------------------------
\* /api/products/search loader
\* ------------------------------------------------------------------------
Queries == {Null, Some(""), Some("a"), Some("shirt")}

\* Products of the catalog as the search query selects them
CatalogProducts ==
  { [id |-> "gid://shopify/Product/1", title |-> "Blue shirt",
     featuredImage |-> Some([url |-> "https://cdn.example/1.png"])],
    [id |-> "gid://shopify/Product/2", title |-> "Red shirt",
     featuredImage |-> Null] }

SearchResults ==
  FailureResults \cup
  { CatalogResult("data", 200, edges) : edges \in SeqsUpTo(CatalogProducts, MaxEdges) }

\* edges.map(edge => ({value, label, media}))
FormatOption(node) ==
  [value |-> node.id, label |-> node.title,
   media |-> IF node.featuredImage = Null THEN Null
             ELSE Some(Val(node.featuredImage).url)]

FormatOptions(edges) == [i \in 1..Len(edges) |-> FormatOption(edges[i])]

\* The variables of SEARCH_PRODUCTS_QUERY: title:*${query}*
SearchVariables(query) == [query |-> << "title:*", Val(query), "*" >>]

\* An exchange on a catalog route: the route and its query parameter, the
\* variables of each admin.graphql call made, what the catalog answered
\* (Null when it was not called), and the HTTP status and body returned
HttpResponse(route, input, asked, result, status, body) ==
  [route |-> route, input |-> input, asked |-> asked, result |-> result,
   status |-> status, body |-> body]

\* The response of the loader to a query, given what the catalog answers
SearchResponse(query, result) ==
  IF ~Truthy(query)
  THEN HttpResponse("search", query, << >>, Null, 400, [products |-> << >>])
  ELSE LET asked == << SearchVariables(query) >>
       IN CASE result.kind = "throws" ->
                 HttpResponse("search", query, asked, Some(result), 500,
                              [error |-> "Internal Server Error"])
            [] result.kind = "notOk" ->
                 HttpResponse("search", query, asked, Some(result), result.status,
                              [error |-> "Failed to fetch products"])
            [] result.kind = "errors" ->
                 HttpResponse("search", query, asked, Some(result), 200,
                              [error |-> "Failed to fetch products"])
            [] result.kind = "noData" ->
                 HttpResponse("search", query, asked, Some(result), 200,
                              [error |-> "Failed to fetch products"])
            [] OTHER ->
                 HttpResponse("search", query, asked, Some(result), 200,
                              [products |-> FormatOptions(result.nodes)])

Search(query, result) ==
  /\ http = NoRequest
  /\ http' = SearchResponse(query, result)
  /\ UNCHANGED << store, nextId, clock, dbUp, inflight, last, lastWrite >>
  /\ UNCHANGED << formVars, trackerVars, warrantyVars, pageVars >>

\* ------------------------------------------------------------------------
\* /api/products/details loader
\* ------------------------------------------------------------------------

\* The ids query parameter is a string, written as the sequence of its
\* pieces: a piece is a comma or a run of characters without a comma
Comma == ","
GidPieces == {"gid://shopify/Product/1", "gid://shopify/Product/2"}
Pieces == {Comma, "not-a-gid"} \cup GidPieces

IdsParams == {Null} \cup { Some(str) : str \in SeqsUpTo(Pieces, MaxParamLen) }

\* !idsParam: the parameter is missing or the empty string
IsMissing(idsParam) == idsParam = Null \/ Val(idsParam) = << >>

\* idsParam.split(',')
RECURSIVE Split(_)
Split(str) ==
  IF \A i \in 1..Len(str) : str[i] # Comma THEN << str >>
  ELSE LET i == CHOOSE k \in 1..Len(str) :
                  str[k] = Comma /\ \A j \in 1..(k - 1) : str[j] # Comma
       IN << SubSeq(str, 1, i - 1) >> \o Split(SubSeq(str, i + 1, Len(str)))

\* id.startsWith('gid://shopify/Product/')
StartsWithProductGid(id) == Len(id) > 0 /\ id[1] \in GidPieces

\* FilterIds that keeps every id of the list
FilterIdsNone(idsParam) == Split(Val(idsParam))

\* split(',').filter(id => id.startsWith('gid://shopify/Product/'))
FilterIds(idsParam) == SelectSeq(Split(Val(idsParam)), StartsWithProductGid)

\* nodes(ids: $ids) answers one entry per id: the product under the id, or
\* null when the id resolves to no product
ProductNode(id) == [id |-> id, title |-> "Product", featuredImage |-> Null]

IsProductGid(id) == Len(id) = 1 /\ id[1] \in GidPieces

NodesFor(ids) ==
  { nodes \in [1..Len(ids) -> {Null} \cup { Some(ProductNode(ids[i])) : i \in 1..Len(ids) }] :
      \A i \in 1..Len(ids) :
         nodes[i] = Null \/ (IsProductGid(ids[i]) /\ nodes[i] = Some(ProductNode(ids[i]))) }

DetailsResults(ids) ==
  FailureResults \cup { CatalogResult("data", 200, nodes) : nodes \in NodesFor(ids) }

\* NonNullNodes that gives up the whole list when one node is null
NonNullNodesAllOrNothing(nodes) ==
  IF \E i \in 1..Len(nodes) : nodes[i] = Null THEN << >>
  ELSE [i \in 1..Len(nodes) |-> Val(nodes[i])]

NotNull(node) == node # Null

\* nodes.filter(node => node !== null)
NonNullNodes(nodes) ==
  LET kept == SelectSeq(nodes, NotNull) IN [i \in 1..Len(kept) |-> Val(kept[i])]

\* if (!idsParam) return json({ error }, { status: 400 })
MissingIdsResponse(idsParam) ==
  HttpResponse("details", idsParam, << >>, Null, 400,
               [error |-> "Product IDs are required"])

\* NoIdsResponse that treats an empty id list as a bad request
NoIdsResponseError(idsParam) ==
  HttpResponse("details", idsParam, << >>, Null, 400,
               [error |-> "Product IDs are required"])

\* if (ids.length === 0) return json({ products: [] })
NoIdsResponse(idsParam) ==
  HttpResponse("details", idsParam, << >>, Null, 200, [products |-> << >>])

\* The response of the loader once the catalog was asked for ids
LookupResponse(idsParam, ids, result) ==
  LET asked == << [ids |-> ids] >>
  IN CASE result.kind = "throws" ->
            HttpResponse("details", idsParam, asked, Some(result), 500,
                         [error |-> "Failed to fetch product details"])
       [] result.kind = "notOk" ->
            HttpResponse("details", idsParam, asked, Some(result), result.status,
                         [error |-> "Failed to fetch product details"])
       [] result.kind = "errors" ->
            HttpResponse("details", idsParam, asked, Some(result), 200,
                         [error |-> "Failed to fetch product details"])
       [] result.kind = "noData" ->
            HttpResponse("details", idsParam, asked, Some(result), 200,
                         [products |-> << >>])
       [] OTHER ->
            HttpResponse("details", idsParam, asked, Some(result), 200,
                         [products |-> NonNullNodes(result.nodes)])

\* What the loader answers
DetailsResponse(idsParam, result) ==
  IF IsMissing(idsParam) THEN MissingIdsResponse(idsParam)
  ELSE IF Len(FilterIds(idsParam)) = 0 THEN NoIdsResponse(idsParam)
  ELSE LookupResponse(idsParam, FilterIds(idsParam), result)

Details(idsParam, result) ==
  /\ http = NoRequest
  /\ http' = DetailsResponse(idsParam, result)
  /\ UNCHANGED << store, nextId, clock, dbUp, inflight, last, lastWrite >>
  /\ UNCHANGED << formVars, trackerVars, warrantyVars, pageVars >>

\* The client takes the response; the next request can be sent
Deliver ==
  /\ http # NoRequest
  /\ http' = NoRequest
  /\ UNCHANGED << store, nextId, clock, dbUp, inflight, last, lastWrite >>
  /\ UNCHANGED << formVars, trackerVars, warrantyVars, pageVars >>

\* Requests to the two catalog routes, one at a time
NextCatalog ==
  \/ \E query \in Queries, result \in SearchResults : Search(query, result)
  \/ \E idsParam \in IdsParams :
       \E result \in IF IsMissing(idsParam) THEN FailureResults
                     ELSE DetailsResults(FilterIds(idsParam)) :
          Details(idsParam, result)
  \/ Deliver

SpecCatalog == Init /\ [][NextCatalog]_vars

\* ------------------------------------------------------------------------
\* The save action over the forms a client can submit
\* ------------------------------------------------------------------------

\* The four checkbox fields of the out-of-stock block
CheckboxFields == {"noStockEnabled", "noStockNotifyFormEnabled",
                   "noStockTimerEnabled", "noStockRecommendationsEnabled"}

\* What a form can carry for a checkbox: no entry, the browser's "on", or
\* another string
CheckboxEntries == {Null, Some("on"), Some("true")}

\* What a form can carry for the restock date: no entry, the empty string,
\* a string that is no date, a date
DateEntries == {Null, Some(""), Some("not-a-date"), Some("2025-12-24T00:00:00.000Z")}

SubmittedForms ==
  { [ productId |-> Some("gid://shopify/Product/1"),
      noStockEnabled |-> e,
      noStockButtonText |-> t,
      noStockButtonColor |-> c,
      noStockNotifyFormEnabled |-> n,
      noStockTimerEnabled |-> m,
      noStockRestockDate |-> d,
      noStockRecommendationsEnabled |-> r,
      noStockRecommendedProductGids |-> g ] :
    e \in CheckboxEntries, n \in CheckboxEntries, m \in CheckboxEntries,
    r \in CheckboxEntries,
    t \in {Null, Some(""), Some("Notify me")},
    c \in {Null, Some("#FF0000")},
    d \in DateEntries,
    g \in {Null, Some("gid://shopify/Product/2")} }

\* A client holds one form and submits it
InitDecode ==
  /\ InitRoutes
  /\ InitStore
  /\ submitted \in {Some(f) : f \in SubmittedForms}
  /\ InitTracker
  /\ InitWarranty
  /\ page = NoPage

\* The action run on the form held, for the session's shop
SaveSubmitted(shop) ==
  /\ submitted # Null
  /\ Save(shop, Val(submitted))

NextDecode == \E shop \in Shops : SaveSubmitted(shop)

SpecDecode == InitDecode /\ [][NextDecode]_vars

\* ------------------------------------------------------------------------
\* Back-in-stock subscriptions: the BackInStockSubscription table and the
\* tracker operations on it
\* ------------------------------------------------------------------------

\* enum SubscriptionStatus
SubscriptionStatuses == {"PENDING", "NOTIFIED", "ERROR"}

Emails == {"ann@example.com", "bob@example.com"}

\* SubscriptionDefaults of a table whose status column defaults to NOTIFIED
SubscriptionDefaultsNotified ==
  [customerName |-> Null, customerPhone |-> Null, notifiedAt |-> Null,
   status |-> "NOTIFIED"]

\* Column defaults of the table: the optional columns null, status PENDING
SubscriptionDefaults ==
  [customerName |-> Null, customerPhone |-> Null, notifiedAt |-> Null,
   status |-> "PENDING"]

\* SubscriptionUniqueViolation of a table with a unique index on
\* (shop, productId, customerEmail)
SubscriptionUniqueByEmail(st, shop, productId, email) ==
  \E r \in st : r.shop = shop /\ r.productId = productId /\ r.customerEmail = email

\* The table has two indexes, on (shop, productId, status) and on
\* (customerEmail), neither unique: no insert is rejected as a duplicate
SubscriptionUniqueViolation(st, shop, productId, email) == FALSE

\* The row an insert leaves: the supplied columns, the column defaults for
\* the others, autoincrement id, subscribedAt = now
SubscriptionRow(shop, productId, email, id, now) ==
  Merge(SubscriptionDefaults,
        [id |-> id, shop |-> shop, productId |-> productId,
         customerEmail |-> email, subscribedAt |-> now])

\* The subscription under an id, if any
FindSubscription(st, id) ==
  IF \E r \in st : r.id = id THEN Some(CHOOSE r \in st : r.id = id) ELSE Null

\* The response of a tracker operation
TrackerResponse(op, shop, productId, status, body) ==
  Response(op, "", shop, productId, Null, status, body, TRUE)

\* subscribe(shop, productId, email): a new PENDING record, whatever records
\* the table already holds for the same email and product
Subscribe(shop, productId, email) ==
  /\ nextSubId <= MaxSubs
  /\ IF SubscriptionUniqueViolation(subs, shop, productId, email)
     THEN /\ last' = TrackerResponse("subscribe", shop, Some(productId), 409,
                                     [error |-> "already subscribed"])
          /\ UNCHANGED << subs, nextSubId >>
     ELSE /\ subs' = subs \cup {SubscriptionRow(shop, productId, email, nextSubId, clock)}
          /\ nextSubId' = nextSubId + 1
          /\ last' = TrackerResponse("subscribe", shop, Some(productId), 200,
                                     [id |-> nextSubId])
  /\ UNCHANGED << store, nextId, clock, dbUp, inflight, lastWrite, http >>
  /\ UNCHANGED << formVars, warrantyVars, pageVars >>

\* A PENDING subscription moves to a terminal status; any other is left as
\* it is and the operation fails
Transition(op, id, to, stamp) ==
  /\ LET found == FindSubscription(subs, id)
     IN IF found = Null
        THEN /\ last' = TrackerResponse(op, "", Null, 404,
                                        [id |-> id, error |-> "subscription not found"])
             /\ UNCHANGED subs
        ELSE IF Val(found).status # "PENDING"
        THEN /\ last' = TrackerResponse(op, Val(found).shop, Null, 409,
                                        [id |-> id, error |-> "invalid transition"])
             /\ UNCHANGED subs
        ELSE /\ subs' = (subs \ {Val(found)}) \cup
                          {[Val(found) EXCEPT !.status = to, !.notifiedAt = stamp]}
             /\ last' = TrackerResponse(op, Val(found).shop, Null, 200, [id |-> id])
  /\ UNCHANGED << store, nextId, clock, dbUp, inflight, lastWrite, http >>
  /\ UNCHANGED << nextSubId, formVars, warrantyVars, pageVars >>

\* MarkNotified that does not look at the current status
MarkNotifiedAnyStatus(id) ==
  /\ \E r \in subs : r.id = id
  /\ LET row == CHOOSE r \in subs : r.id = id
     IN /\ subs' = (subs \ {row}) \cup
                     {[row EXCEPT !.status = "NOTIFIED", !.notifiedAt = Some(clock)]}
        /\ last' = TrackerResponse("markNotified", row.shop, Null, 200, [id |-> id])
  /\ UNCHANGED << store, nextId, clock, dbUp, inflight, lastWrite, http >>
  /\ UNCHANGED << nextSubId, formVars, warrantyVars, pageVars >>

\* markNotified(subscriptionId): PENDING -> NOTIFIED, stamped with the time
MarkNotified(id) == Transition("markNotified", id, "NOTIFIED", Some(clock))

\* markError(subscriptionId): PENDING -> ERROR
MarkError(id) == Transition("markError", id, "ERROR", Null)

SubscriptionIds == 1..MaxSubs

\* The product shoppers subscribe to
WatchedProducts == {"gid://shopify/Product/1"}

\* The tracker at start: both tables empty
InitTrackerOnly ==
  /\ InitRoutes
  /\ store = {}
  /\ nextId = 1
  /\ submitted = Null
  /\ InitTracker
  /\ InitWarranty
  /\ page = NoPage

NextTracker ==
  \/ \E shop \in Shops, productId \in WatchedProducts, email \in Emails :
       Subscribe(shop, productId, email)
  \/ \E id \in SubscriptionIds : MarkNotified(id)
  \/ \E id \in SubscriptionIds : MarkError(id)
  \/ Tick

SpecTracker == InitTrackerOnly /\ [][NextTracker]_vars

\* ------------------------------------------------------------------------
\* Warranty resolution: the ShopSettings table and the effective warranty
\* configuration of a product
\* ------------------------------------------------------------------------

\* SystemDefaults with the warranty enabled
SystemDefaultsEnabled ==
  [ warrantyEnabled |-> TRUE,
    warrantyDefaultPresentation |-> Some("POPUP"),
    warrantyDefaultPercentage |-> Some(10),
    warrantyGlobalDescription |-> Null,
    warrantyProductId |-> Null ]

\* The column defaults of ShopSettings, which are the system defaults for a
\* shop without a row: warranty disabled, POPUP, 10.0 percent
SystemDefaults ==
  [ warrantyEnabled |-> FALSE,
    warrantyDefaultPresentation |-> Some("POPUP"),
    warrantyDefaultPercentage |-> Some(10),
    warrantyGlobalDescription |-> Null,
    warrantyProductId |-> Null ]

\* The ShopSettings rows the model starts from, all of the first shop
SettingsRows ==
  { Merge(SystemDefaults,
          [ id |-> 1, shop |-> "a.myshopify.com",
            warrantyEnabled |-> en,
            warrantyDefaultPresentation |-> pr,
            warrantyDefaultPercentage |-> pc ]) :
    en \in BOOLEAN,
    pr \in {Null, Some("POPUP"), Some("EMBED")},
    pc \in {Null, Some(10), Some(25)} }

\* The ProductConfiguration rows the model starts from, all of the first
\* shop's first product: every setting of the warranty block
OverrideRows ==
  { Merge(SeedRow,
          [ warrantyEnabledOverride |-> en,
            warrantyPresentationOverride |-> pr,
            warrantyPriceType |-> ty,
            warrantyPriceValue |-> va ]) :
    en \in {Null, Some(TRUE), Some(FALSE)},
    pr \in {Null, Some("POPUP"), Some("EMBED")},
    ty \in {Null, Some("GLOBAL_PERCENTAGE"), Some("PRODUCT_PERCENTAGE"),
            Some("PRODUCT_FIXED")},
    va \in {Null, Some(15)} }

\* getShopDefaults(shop): the shop's row, or absent
GetShopDefaults(st, shop) ==
  IF \E r \in st : r.shop = shop
  THEN Some(CHOOSE r \in st : r.shop = shop)
  ELSE Null

\* ResolveWarranty in which the shop's enabled flag wins over the override
ResolveWarrantyShopFirst(shopDefaults, override) ==
  LET sd == IF shopDefaults = Null THEN SystemDefaults ELSE Val(shopDefaults)
      has(f) == override # Null /\ Val(override)[f] # Null
      priceType == IF has("warrantyPriceType")
                   THEN Val(Val(override).warrantyPriceType)
                   ELSE "GLOBAL_PERCENTAGE"
      priceValue == IF priceType = "GLOBAL_PERCENTAGE"
                    THEN sd.warrantyDefaultPercentage
                    ELSE Val(override).warrantyPriceValue
  IN [ enabled |-> IF shopDefaults # Null
                   THEN sd.warrantyEnabled
                   ELSE IF has("warrantyEnabledOverride")
                   THEN Val(Val(override).warrantyEnabledOverride)
                   ELSE FALSE,
       presentation |-> IF has("warrantyPresentationOverride")
                        THEN Val(Val(override).warrantyPresentationOverride)
                        ELSE IF sd.warrantyDefaultPresentation # Null
                        THEN Val(sd.warrantyDefaultPresentation)
                        ELSE "POPUP",
       priceType |-> priceType,
       priceValue |-> priceValue,
       error |-> IF priceValue = Null
                 THEN Some("price value required by the price type is missing")
                 ELSE Null ]

\* ResolveWarranty that puts the system percentage in the place of a price
\* value that is missing
ResolveWarrantyDefaulting(shopDefaults, override) ==
  LET sd == IF shopDefaults = Null THEN SystemDefaults ELSE Val(shopDefaults)
      has(f) == override # Null /\ Val(override)[f] # Null
      priceType == IF has("warrantyPriceType")
                   THEN Val(Val(override).warrantyPriceType)
                   ELSE "GLOBAL_PERCENTAGE"
      priceValue == IF priceType = "GLOBAL_PERCENTAGE"
                    THEN sd.warrantyDefaultPercentage
                    ELSE Val(override).warrantyPriceValue
  IN [ enabled |-> IF has("warrantyEnabledOverride")
                   THEN Val(Val(override).warrantyEnabledOverride)
                   ELSE sd.warrantyEnabled,
       presentation |-> IF has("warrantyPresentationOverride")
                        THEN Val(Val(override).warrantyPresentationOverride)
                        ELSE IF sd.warrantyDefaultPresentation # Null
                        THEN Val(sd.warrantyDefaultPresentation)
                        ELSE "POPUP",
       priceType |-> priceType,
       priceValue |-> IF priceValue = Null
                      THEN SystemDefaults.warrantyDefaultPercentage
                      ELSE priceValue,
       error |-> Null ]

\* The effective warranty configuration from (ShopDefaults | absent,
\* ProductOverride | absent): the override's value where it has one, else
\* the shop default, else the system default; the price of a PRODUCT_* type
\* is the override's value, that of GLOBAL_PERCENTAGE the shop's percentage;
\* a price the type requires and nobody gives is an error
ResolveWarranty(shopDefaults, override) ==
  LET sd == IF shopDefaults = Null THEN SystemDefaults ELSE Val(shopDefaults)
      has(f) == override # Null /\ Val(override)[f] # Null
      priceType == IF has("warrantyPriceType")
                   THEN Val(Val(override).warrantyPriceType)
                   ELSE "GLOBAL_PERCENTAGE"
      priceValue == IF priceType = "GLOBAL_PERCENTAGE"
                    THEN sd.warrantyDefaultPercentage
                    ELSE Val(override).warrantyPriceValue
  IN [ enabled |-> IF has("warrantyEnabledOverride")
                   THEN Val(Val(override).warrantyEnabledOverride)
                   ELSE sd.warrantyEnabled,
       presentation |-> IF has("warrantyPresentationOverride")
                        THEN Val(Val(override).warrantyPresentationOverride)
                        ELSE IF sd.warrantyDefaultPresentation # Null
                        THEN Val(sd.warrantyDefaultPresentation)
                        ELSE "POPUP",
       priceType |-> priceType,
       priceValue |-> priceValue,
       error |-> IF priceValue = Null
                 THEN Some("price value required by the price type is missing")
                 ELSE Null ]

\* The two tables as some earlier writes left them
InitResolve ==
  /\ InitRoutes
  /\ store \in { {} } \cup { {r} : r \in OverrideRows }
  /\ nextId = Cardinality(store) + 1
  /\ submitted = Null
  /\ InitTracker
  /\ settings \in { {} } \cup { {r} : r \in SettingsRows }
  /\ resolution = Null
  /\ page = NoPage

\* The effective warranty configuration of a product of a shop is computed
Resolve(shop, productId) ==
  /\ resolution' = Some([ shop |-> shop, productId |-> productId,
                          config |-> ResolveWarranty(GetShopDefaults(settings, shop),
                                                     FindUnique(store, shop, productId)) ])
  /\ UNCHANGED << store, nextId, clock, dbUp, inflight, last, lastWrite, http >>
  /\ UNCHANGED << formVars, trackerVars, settings, pageVars >>

NextResolve == \E shop \in Shops, productId \in ProductIds : Resolve(shop, productId)

SpecResolve == InitResolve /\ [][NextResolve]_vars

\* ------------------------------------------------------------------------
\* /app/nostock page: the component's state, its four fetchers, its handlers
\* and effects. One page is open, for the shop of the session. A response
\* is taken to arrive as its handler returns; the effects that a change of
\* state triggers run to completion within the step that made the change.
\* ------------------------------------------------------------------------

\* Pending autocomplete timers the model keeps at most
MaxTimers == 2

\* session.shop of the page's requests
PageShop == "a.myshopify.com"

\* The form state a product without a stored configuration is given
defaultConfigState ==
  [ noStockEnabled |-> FALSE,
    noStockButtonText |-> Some("Avísame cuando esté disponible"),
    noStockButtonColor |-> Some("#808080"),
    noStockNotifyFormEnabled |-> TRUE,
    noStockTimerEnabled |-> FALSE,
    noStockRestockDate |-> Null,
    noStockRecommendationsEnabled |-> FALSE,
    noStockRecommendedProductGids |-> Null ]

\* Date.prototype.toISOString() for the dates of the model, and the JSON
\* form of a stored date
ToISOString(date) ==
  CASE date = 20251224 -> "2025-12-24T00:00:00.000Z"
    [] date = 20260115 -> "2026-01-15T00:00:00.000Z"
    [] date = 20260301 -> "2026-03-01T00:00:00.000Z"

\* What the user types into the autocomplete, and value.length
TypedValues == {"s", "sh", "shirt"}

StringLength(str) ==
  CASE str = "" -> 0
    [] str = "s" -> 1
    [] str = "sh" -> 2
    [] str = "shirt" -> 5
    [] OTHER -> 10

\* useFetcher(): its state, the data of its last response, and the request
\* in flight
Fetcher(state, data, request) == [state |-> state, data |-> data, request |-> request]

\* configuredProductIds.join(',') as the pieces of the ids parameter
JoinIds(ids) ==
  Some([i \in 1..(2 * Len(ids) - 1) |-> IF i % 2 = 1 THEN ids[(i + 1) \div 2] ELSE Comma])

\* A product of the details response as the page lists it
ListedProduct(node) ==
  [id |-> node.id[1], title |-> node.title, featuredImage |-> node.featuredImage]

\* useEffect on productFetcher: the options follow the products of the last
\* response, an error response empties them
ProductOptionsEffect(p) ==
  LET data == p.productFetcher.data
  IN IF data # Null /\ "products" \in DOMAIN Val(data)
     THEN [p EXCEPT !.productOptions =
             [i \in 1..Len(Val(data).products) |->
                [value |-> Val(data).products[i].value,
                 label |-> Val(data).products[i].label]]]
     ELSE IF data # Null /\ "error" \in DOMAIN Val(data)
     THEN [p EXCEPT !.productOptions = << >>]
     ELSE p

\* The form state made of a stored configuration: the eight out-of-stock
\* columns, the date read back from its JSON string by new Date
LoadedConfig(loadedConfig) ==
  [ noStockEnabled |-> loadedConfig.noStockEnabled,
    noStockButtonText |-> loadedConfig.noStockButtonText,
    noStockButtonColor |-> loadedConfig.noStockButtonColor,
    noStockNotifyFormEnabled |-> loadedConfig.noStockNotifyFormEnabled,
    noStockTimerEnabled |-> loadedConfig.noStockTimerEnabled,
    noStockRestockDate |->
      IF loadedConfig.noStockRestockDate = Null THEN Null
      ELSE DateOf(ToISOString(Val(loadedConfig.noStockRestockDate))),
    noStockRecommendationsEnabled |-> loadedConfig.noStockRecommendationsEnabled,
    noStockRecommendedProductGids |-> loadedConfig.noStockRecommendedProductGids ]

\* ConfigEffect that leaves the form as it is when the product has no
\* stored configuration
ConfigEffectKeep(p) ==
  LET data == Val(p.configFetcher.data)
      loaded == IF "config" \in DOMAIN data THEN data.config ELSE Null
  IN IF loaded # Null
     THEN [p EXCEPT !.isConfigLoading = FALSE,
                    !.configSource = Some(Val(loaded).productId),
                    !.config = LoadedConfig(Val(loaded))]
     ELSE [p EXCEPT !.isConfigLoading = FALSE]

\* useEffect on configFetcher, run when a load ends: a stored configuration
\* fills the form, an error leaves the form as it is, no configuration
\* resets the form to defaultConfigState. configSource records, beside the
\* form, the product whose stored configuration filled it last (Null: the
\* defaults)
ConfigEffect(p) ==
  LET data == Val(p.configFetcher.data)
      loaded == IF "config" \in DOMAIN data THEN data.config ELSE Null
  IN IF loaded # Null
     THEN [p EXCEPT !.isConfigLoading = FALSE,
                    !.configSource = Some(Val(loaded).productId),
                    !.config = LoadedConfig(Val(loaded))]
     ELSE IF "error" \in DOMAIN data
     THEN [p EXCEPT !.isConfigLoading = FALSE]
     ELSE [p EXCEPT !.isConfigLoading = FALSE,
                    !.configSource = Null,
                    !.config = defaultConfigState]

\* useEffect on saveFetcher, the selection and the list: after a successful
\* save the selected product is put at the head of the list unless listed
OptimisticUpdate(p) ==
  LET data == p.saveFetcher.data
      listed == \E i \in 1..Len(p.configuredProductDetails) :
                   Some(p.configuredProductDetails[i].id) = p.selectedProductId
  IN IF /\ p.saveFetcher.state = "idle"
        /\ data # Null
        /\ "error" \notin DOMAIN Val(data)
        /\ "success" \in DOMAIN Val(data)
        /\ p.selectedProductId # Null
        /\ p.selectedProductInfo # Null
        /\ ~listed
     THEN [p EXCEPT !.configuredProductDetails =
             << Val(p.selectedProductInfo) >> \o p.configuredProductDetails]
     ELSE p

\* useEffect on configuredProductIds and detailsFetcher: the details of the
\* loader's ids are asked for once
DetailsLoadEffect(p) ==
  IF /\ Len(p.configuredProductIds) > 0
     /\ p.detailsFetcher.state = "idle"
     /\ p.detailsFetcher.data = Null
  THEN [p EXCEPT !.detailsFetcher =
          Fetcher("loading", Null, JoinIds(p.configuredProductIds))]
  ELSE p

\* useEffect on detailsFetcher: the products of the response replace the list
DetailsEffect(p) ==
  LET data == p.detailsFetcher.data
  IN IF /\ p.detailsFetcher.state = "idle"
        /\ data # Null
        /\ "products" \in DOMAIN Val(data)
     THEN [p EXCEPT !.configuredProductDetails =
             [i \in 1..Len(Val(data).products) |-> ListedProduct(Val(data).products[i])]]
     ELSE p

\* The page as the browser shows it first: the loader's ids, an empty form
\* with the defaults, and the details of the loader's ids asked for
OpenPage(ids) ==
  DetailsLoadEffect(
    [ configuredProductIds |-> ids,
      selectedProductId |-> Null,
      selectedProductInfo |-> Null,
      inputValue |-> "",
      productOptions |-> << >>,
      config |-> defaultConfigState,
      configSource |-> Null,
      isConfigLoading |-> FALSE,
      configuredProductDetails |-> << >>,
      productFetcher |-> Fetcher("idle", Null, Null),
      configFetcher |-> Fetcher("idle", Null, Null),
      saveFetcher |-> Fetcher("idle", Null, Null),
      detailsFetcher |-> Fetcher("idle", Null, Null),
      timers |-> << >> ])

\* The server's variables a step of the page leaves alone
serverVars == << clock, inflight, http, formVars, trackerVars, warrantyVars >>

\* fetchProducts(query): a query shorter than two characters empties the
\* options, any other query is sent to the search route; a load on a
\* fetcher replaces the load it had in flight
fetchProducts(p, query) ==
  IF StringLength(query) < 2
  THEN [p EXCEPT !.productOptions = << >>]
  ELSE ProductOptionsEffect(
         [p EXCEPT !.productFetcher = Fetcher("loading", @.data, Some(query))])

\* handleInputChange(value): the input is kept, a selection whose title
\* differs from the input is cleared, and a timer of 300 ms is set for the
\* search; the function that would clear the timer is returned to the
\* caller, which drops it
HandleInputChange(value, pending) ==
  /\ Len(page.timers) < pending
  /\ LET differs == /\ page.selectedProductInfo # Null
                    /\ Val(page.selectedProductInfo).title # value
     IN page' = OptimisticUpdate(
                  [page EXCEPT !.inputValue = value,
                               !.selectedProductId = IF differs THEN Null ELSE @,
                               !.selectedProductInfo = IF differs THEN Null ELSE @,
                               !.timers = Append(@, value)])
  /\ last' = NoResponse
  /\ UNCHANGED << store, nextId, lastWrite, dbUp, serverVars >>

\* The oldest timer fires: setTimeout(() => fetchProducts(value), 300)
TimerFires ==
  /\ Len(page.timers) > 0
  /\ page' = fetchProducts([page EXCEPT !.timers = Tail(@)], Head(page.timers))
  /\ last' = NoResponse
  /\ UNCHANGED << store, nextId, lastWrite, dbUp, serverVars >>

\* What the catalog answers to the searches of the page: the products whose
\* title holds the query, or a failure
MatchingProducts ==
  CatalogResult("data", 200,
    << CHOOSE n \in CatalogProducts : n.id = "gid://shopify/Product/1",
       CHOOSE n \in CatalogProducts : n.id = "gid://shopify/Product/2" >>)

PageSearchResults ==
  { result \in FailureResults : result.kind = "throws" } \cup { MatchingProducts }

\* The search route answers the load of productFetcher
SearchCompletes(result) ==
  /\ page.productFetcher.state = "loading"
  /\ page' = ProductOptionsEffect(
               [page EXCEPT !.productFetcher =
                  Fetcher("idle",
                          Some(SearchResponse(page.productFetcher.request, result).body),
                          Null)])
  /\ last' = NoResponse
  /\ UNCHANGED << store, nextId, lastWrite, dbUp, serverVars >>

\* handleSelect([selectedValue]): the option is looked up in the products of
\* the last search response; found, the product is selected and its
\* configuration is asked for; not found, the product is selected under its
\* id and no configuration is asked for
handleSelect(p, selectedValue) ==
  LET data == p.productFetcher.data
      products == IF data # Null /\ "products" \in DOMAIN Val(data)
                  THEN Val(data).products ELSE << >>
      hits == {i \in 1..Len(products) : products[i].value = selectedValue}
  IN IF hits # {}
     THEN LET option == products[CHOOSE i \in hits : \A j \in hits : i <= j]
          IN [p EXCEPT !.selectedProductId = Some(option.value),
                       !.selectedProductInfo =
                          Some([id |-> option.value, title |-> option.label,
                                featuredImage |->
                                  IF option.media = Null THEN Null
                                  ELSE Some([url |-> Val(option.media)])]),
                       !.inputValue = option.label,
                       !.configFetcher = Fetcher("loading", @.data, Some(option.value)),
                       !.isConfigLoading = TRUE,
                       !.productOptions = << >>]
     ELSE [p EXCEPT !.selectedProductId = Some(selectedValue),
                    !.selectedProductInfo =
                       Some([id |-> selectedValue, title |-> selectedValue,
                             featuredImage |-> Null]),
                    !.inputValue = selectedValue,
                    !.productOptions = << >>]

\* The user picks one of the options shown
HandleSelect(selectedValue) ==
  /\ \E i \in 1..Len(page.productOptions) : page.productOptions[i].value = selectedValue
  /\ page' = OptimisticUpdate(handleSelect(page, selectedValue))
  /\ last' = NoResponse
  /\ UNCHANGED << store, nextId, lastWrite, dbUp, serverVars >>

\* handleEditClick(product) on a product of the configured-products list
HandleEditClick(i) ==
  /\ i \in 1..Len(page.configuredProductDetails)
  /\ LET product == page.configuredProductDetails[i]
     IN page' = OptimisticUpdate(
                  [page EXCEPT !.selectedProductId = Some(product.id),
                               !.selectedProductInfo = Some(product),
                               !.inputValue = product.title,
                               !.productOptions = << >>,
                               !.configFetcher = Fetcher("loading", @.data, Some(product.id)),
                               !.isConfigLoading = TRUE])
  /\ last' = NoResponse
  /\ UNCHANGED << store, nextId, lastWrite, dbUp, serverVars >>

\* The config route answers the load of configFetcher
ConfigCompletes ==
  /\ page.configFetcher.state = "loading"
  /\ page' = ConfigEffect(
               [page EXCEPT !.configFetcher =
                  Fetcher("idle",
                          Some(ConfigResponse(PageShop, page.configFetcher.request).body),
                          Null)])
  /\ last' = NoResponse
  /\ UNCHANGED << store, nextId, lastWrite, dbUp, serverVars >>

\* handleConfigChange(field, value)
HandleConfigChange(field, value) ==
  /\ page.config[field] # value
  /\ page' = [page EXCEPT !.config = [@ EXCEPT ![field] = value]]
  /\ last' = NoResponse
  /\ UNCHANGED << store, nextId, lastWrite, dbUp, serverVars >>

\* OnWhenTrue that sends String(value) for a checkbox
StringOfBoolean(value) == IF value THEN Some("true") ELSE Some("false")

\* formData.append of handleSave for a checkbox: 'on' when true, no entry
\* when false
OnWhenTrue(value) == IF value THEN Some("on") ELSE Null

\* formData.append of handleSave for the date: toISOString(), no entry when
\* null
IsoWhenSet(value) == IF value = Null THEN Null ELSE Some(ToISOString(Val(value)))

\* The form handleSave builds: productId and one entry per field of the
\* form state that is not null
FormData(productId, config) ==
  [ productId |-> productId,
    noStockEnabled |-> OnWhenTrue(config.noStockEnabled),
    noStockButtonText |-> config.noStockButtonText,
    noStockButtonColor |-> config.noStockButtonColor,
    noStockNotifyFormEnabled |-> OnWhenTrue(config.noStockNotifyFormEnabled),
    noStockTimerEnabled |-> OnWhenTrue(config.noStockTimerEnabled),
    noStockRestockDate |-> IsoWhenSet(config.noStockRestockDate),
    noStockRecommendationsEnabled |-> OnWhenTrue(config.noStockRecommendationsEnabled),
    noStockRecommendedProductGids |-> config.noStockRecommendedProductGids ]

\* A Save button that is never disabled
SaveNeverDisabled(p) == FALSE

\* disabled={saveFetcher.state !== 'idle' || !selectedProductId}
SaveDisabled(p) == p.saveFetcher.state # "idle" \/ ~Truthy(p.selectedProductId)

\* handleSave: nothing without a selected product, else the form is
\* submitted to the save action
handleSave(p) ==
  IF ~Truthy(p.selectedProductId) THEN p
  ELSE [p EXCEPT !.saveFetcher =
          Fetcher("submitting", @.data, Some(FormData(p.selectedProductId, p.config)))]

\* The user clicks the Save button
ClickSave ==
  /\ ~SaveDisabled(page)
  /\ page' = handleSave(page)
  /\ last' = NoResponse
  /\ UNCHANGED << store, nextId, lastWrite, dbUp, serverVars >>

\* The loader of the page run again after the action
Revalidated(st, up) ==
  IF up THEN { MapProductId(rows) : rows \in FindManyByShop(st, PageShop) }
  ELSE { << >> }

\* The save action answers the submission of saveFetcher; the loader of the
\* page is run again before the fetcher is idle
SaveCompletes ==
  /\ page.saveFetcher.state = "submitting"
  /\ SaveRequest(PageShop, Val(page.saveFetcher.request))
  /\ \E ids \in Revalidated(store', dbUp) :
       page' = DetailsLoadEffect(OptimisticUpdate(
                 [page EXCEPT !.saveFetcher = Fetcher("idle", Some(last'.body), Null),
                              !.configuredProductIds = ids]))
  /\ UNCHANGED << dbUp, serverVars >>

\* What the catalog answers to the details request of the page: the nodes
\* of the ids, or a failure
PageDetailsResults(ids) ==
  { result \in DetailsResults(ids) : result.kind \in {"throws", "data"} }

\* The details route answers the load of detailsFetcher
DetailsCompletes(result) ==
  /\ page.detailsFetcher.state = "loading"
  /\ page' = OptimisticUpdate(DetailsEffect(
               [page EXCEPT !.detailsFetcher =
                  Fetcher("idle",
                          Some(DetailsResponse(page.detailsFetcher.request, result).body),
                          Null)]))
  /\ last' = NoResponse
  /\ UNCHANGED << store, nextId, lastWrite, dbUp, serverVars >>

\* The page is opened on a table that is empty or holds the seed row
InitPage ==
  /\ InitRoutes
  /\ InitStore
  /\ submitted = Null
  /\ InitTracker
  /\ InitWarranty
  /\ \E ids \in Revalidated(store, TRUE) : page = OpenPage(ids)

\* A session of the page: the user searches one query at a time, selects,
\* edit-clicks and saves; the catalog finds the products searched for and
\* the storage stays up
NextPage ==
  \/ HandleInputChange("sh", 1)
  \/ TimerFires
  \/ SearchCompletes(MatchingProducts)
  \/ \E selectedValue \in ProductIds : HandleSelect(selectedValue)
  \/ \E i \in 1..Cardinality(ProductIds) : HandleEditClick(i)
  \/ ConfigCompletes
  \/ ClickSave
  \/ SaveCompletes
  \/ \E result \in IF page.detailsFetcher.state # "loading" THEN {}
                     ELSE PageDetailsResults(FilterIds(page.detailsFetcher.request)) :
       DetailsCompletes(result)

SpecPage == InitPage /\ [][NextPage]_vars

\* The autocomplete and the form, nothing saved: the user types at any
\* pace, the timers fire, the searches succeed or fail, the user selects
\* and edits, the storage goes down and comes back
NextForm ==
  \/ \E value \in TypedValues : HandleInputChange(value, MaxTimers)
  \/ TimerFires
  \/ \E result \in PageSearchResults : SearchCompletes(result)
  \/ \E selectedValue \in ProductIds : HandleSelect(selectedValue)
  \/ ConfigCompletes
  \/ \E value \in BOOLEAN : HandleConfigChange("noStockEnabled", value)
  \/ \E value \in {Some(""), Some("Notify me")} :
       HandleConfigChange("noStockButtonText", value)
  \/ StorageDown
  \/ StorageUp

SpecForm == InitPage /\ [][NextForm]_vars

\* The form states of the page: every value of the four checkboxes, each
\* text unset, empty or filled, the date unset or set
ConfigStates ==
  { [ noStockEnabled |-> e,
      noStockButtonText |-> t,
      noStockButtonColor |-> c,
      noStockNotifyFormEnabled |-> n,
      noStockTimerEnabled |-> m,
      noStockRestockDate |-> d,
      noStockRecommendationsEnabled |-> r,
      noStockRecommendedProductGids |-> g ] :
    e \in BOOLEAN, n \in BOOLEAN, m \in BOOLEAN, r \in BOOLEAN,
    t \in {Null, Some(""), Some("Notify me")},
    c \in {Null, Some(""), Some("#FF0000")},
    d \in {Null, Some(20251224), Some(20260115)},
    g \in {Null, Some("gid://shopify/Product/2")} }

\* The page with a product selected from a search and the form edited to
\* any of its states
InitEncode ==
  /\ InitRoutes
  /\ InitStore
  /\ submitted = Null
  /\ InitTracker
  /\ InitWarranty
  /\ \E ids \in Revalidated(store, TRUE), config \in ConfigStates :
       page = [OpenPage(ids) EXCEPT
                 !.selectedProductId = Some("gid://shopify/Product/1"),
                 !.selectedProductInfo =
                    Some([id |-> "gid://shopify/Product/1", title |-> "Blue shirt",
                          featuredImage |-> Some([url |-> "https://cdn.example/1.png"])]),
                 !.inputValue = "Blue shirt",
                 !.config = config]

\* The form is saved, any number of times
NextEncode ==
  \/ ClickSave
  \/ SaveCompletes

SpecEncode == InitEncode /\ [][NextEncode]_vars

\* ------------------------------------------------------------------------
\* Properties
\* ------------------------------------------------------------------------

\* The rows stored under a (shop, productId) pair, read off the table
\* directly
Stored(st, shop, productId) == {r \in st : r.shop = shop /\ r.productId = productId}

\* C1: after any sequence of saves (any shops and product ids, repeated
\* saves of a pair included) the table holds at most one row per
\* (shop, productId) pair.
C1_AtMostOneRowPerPair ==
  \A shop \in Shops, productId \in ProductIds :
     Cardinality(Stored(store, shop, productId)) <= 1

\* A pair was saved again after its row was created, and both shops hold rows
C1_Witness ==
  /\ last.op = "save" /\ last.status = 200
  /\ \E r \in store : r.id = SeedRow.id /\ r.preorderEnabled /\ r.updatedAt > 0
  /\ \A shop \in Shops : \E r \in store : r.shop = shop

\* C2: a save for a (shop, productId) that already has a row does not fail on
\* the existing row: it succeeds as an update, and afterwards the pair has
\* exactly one row, whose out-of-stock fields are the values of this save.
C2_SecondSaveUpdates ==
  [][ \A shop \in Shops, productId \in ProductIds :
        ( /\ last'.op = "save"
          /\ last'.shop = shop
          /\ last'.productId = Some(productId)
          /\ dbUp
          /\ Stored(store, shop, productId) # {} )
        => ( /\ last'.status = 200
             /\ last'.body = [success |-> TRUE]
             /\ Cardinality(store') = Cardinality(store)
             /\ \E r \in store' :
                  /\ Stored(store', shop, productId) = {r}
                  /\ Block(r, NoStockFields) = Block(Val(last'.data), NoStockFields) )
    ]_vars

\* The row of a pair was written a second time with other out-of-stock values
C2_Witness ==
  /\ last.op = "save" /\ last.status = 200
  /\ \E r \in Stored(store, last.shop, Val(last.productId)) :
       /\ r.id = SeedRow.id /\ r.preorderEnabled
       /\ r.noStockButtonText = Null
       /\ Block(r, NoStockFields) = Block(Val(last.data), NoStockFields)

\* C3: a save of the out-of-stock block for an existing row leaves the row's
\* preorder fields, warranty fields, id, shop and productId unchanged.
C3_OtherBlocksUntouched ==
  [][ \A r \in store :
        ( /\ last'.op = "save"
          /\ last'.status = 200
          /\ last'.shop = r.shop
          /\ last'.productId = Some(r.productId) )
        => \E q \in store' :
             /\ q.id = r.id
             /\ Block(q, KeyFields) = Block(r, KeyFields)
             /\ Block(q, PreorderFields) = Block(r, PreorderFields)
             /\ Block(q, WarrantyFields) = Block(r, WarrantyFields)
    ]_vars

\* The row with non-default preorder and warranty blocks got a new
\* out-of-stock block
C3_Witness ==
  /\ last.op = "save" /\ last.status = 200
  /\ \E r \in store :
       /\ r.id = SeedRow.id
       /\ Block(r, PreorderFields) = Block(SeedRow, PreorderFields)
       /\ Block(r, PreorderFields) # Block(ColumnDefaults, PreorderFields)
       /\ Block(r, WarrantyFields) # Block(ColumnDefaults, WarrantyFields)
       /\ Block(r, NoStockFields) # Block(SeedRow, NoStockFields)

\* C4: with two saves running concurrently, in every interleaving no pair
\* ever has two rows, and once a save has written a pair the pair has exactly
\* one row whose out-of-stock fields are those of the save that wrote last.
C4_LastWriterWins ==
  \A shop \in Shops, productId \in ProductIds :
     /\ Cardinality(Stored(store, shop, productId)) <= 1
     /\ lastWrite[<<shop, productId>>] # Null
          => \E r \in store :
               /\ Stored(store, shop, productId) = {r}
               /\ Block(r, NoStockFields) = Val(lastWrite[<<shop, productId>>])

\* Request r2 wrote the pair while r1, saving other values to the same pair,
\* was between its read and its write
C4_Witness ==
  /\ last.op = "save" /\ last.req = "r2" /\ last.status = 200
  /\ inflight["r1"].pc = "write"
  /\ Val(inflight["r1"].data).shop = last.shop
  /\ Some(Val(inflight["r1"].data).productId) = last.productId
  /\ Block(Val(inflight["r1"].data), NoStockFields) # Block(Val(last.data), NoStockFields)

\* C5: operations in a session of shop S touch rows of S only: a save leaves
\* the rows of every other shop unchanged, get returns only a row of S, and
\* list returns exactly the product ids of the rows of S.
C5_ShopIsolation ==
  [][ /\ last'.op = "save" =>
           {r \in store' : r.shop # last'.shop} = {r \in store : r.shop # last'.shop}
      /\ (last'.op = "get" /\ last'.status = 200 /\ last'.body.config # Null) =>
           /\ Val(last'.body.config).shop = last'.shop
           /\ Val(last'.body.config) \in store
      /\ (last'.op = "list" /\ last'.status = 200) =>
           LET ids == last'.body.configuredProductIds
               own == {r \in store : r.shop = last'.shop}
           IN /\ Len(ids) = Cardinality(own)
              /\ \A i \in 1..Len(ids) : \E r \in own : r.productId = ids[i]
      /\ last'.op \in {"get", "list"} => store' = store
    ]_vars

\* A get in one shop returned its row while another shop holds a row for
\* the same productId
C5_Witness ==
  /\ last.op = "get" /\ last.status = 200
  /\ last.body.config # Null
  /\ \E r \in store : r.shop # last.shop /\ Some(r.productId) = last.productId

\* C6: a search whose query is missing or empty is answered 400 with an empty
\* product list, and the catalog is not called.
C6_EmptyQueryRejected ==
  (http.route = "search" /\ http.input \in {Null, Some("")})
  => /\ http.status = 400
     /\ http.body = [products |-> << >>]
     /\ http.asked = << >>
     /\ http.result = Null

C6_Witness ==
  http.route = "search" /\ http.input = Some("") /\ http.status = 400

\* C7: get-single-config without a productId answers 400 and does not read the
\* store; with a productId (storage answering) it answers {config: row} for
\* the row under (session shop, productId), {config: null} when there is
\* none; it never modifies the store.
C7_GetConfig ==
  [][ last'.op = "get" =>
        /\ store' = store /\ nextId' = nextId
        /\ last'.productId \in {Null, Some("")} =>
             /\ last'.status = 400
             /\ DOMAIN last'.body = {"error"}
             /\ ~last'.dbRead
        /\ (last'.productId \notin {Null, Some("")} /\ dbUp) =>
             /\ last'.status = 200
             /\ DOMAIN last'.body = {"config"}
             /\ LET rows == Stored(store, last'.shop, Val(last'.productId))
                IN IF rows = {} THEN last'.body.config = Null
                   ELSE last'.body.config # Null /\ Val(last'.body.config) \in rows
    ]_vars

\* A get answered {config: null} for a product that only another shop has
\* configured
C7_Witness ==
  /\ last.op = "get" /\ last.status = 200
  /\ last.body.config = Null
  /\ \E r \in store : Some(r.productId) = last.productId

\* The ids of a details request: the comma-delimited list of its parameter
RequestedIds(input) == IF input = Null THEN << >> ELSE Split(Val(input))

\* Positions of the ids of the list that carry the product gid prefix
WellFormedAt(ids) == {i \in 1..Len(ids) : StartsWithProductGid(ids[i])}

\* C8: the bulk details lookup drops every id that does not have the catalog's
\* product id format before the catalog is queried: the catalog is asked
\* exactly for the well-formed ids, in order, and the response holds at most
\* as many products as there were well-formed ids.
C8_IllFormedIdsDropped ==
  http.route = "details" =>
    LET ids == RequestedIds(http.input)
        good == WellFormedAt(ids)
    IN /\ \A c \in 1..Len(http.asked) :
            /\ Len(http.asked[c].ids) = Cardinality(good)
            /\ \A i \in good :
                 http.asked[c].ids[Cardinality({j \in good : j <= i})] = ids[i]
       /\ "products" \in DOMAIN http.body =>
            Len(http.body.products) <= Cardinality(good)

\* The list gid 1, not-a-gid, gid 2: the catalog was asked for two ids and two
\* products came back
C8_Witness ==
  /\ http.route = "details"
  /\ http.input = Some(<< "gid://shopify/Product/1", Comma, "not-a-gid", Comma,
                          "gid://shopify/Product/2" >>)
  /\ Len(http.asked) = 1
  /\ http.asked[1].ids = << << "gid://shopify/Product/1" >>, << "gid://shopify/Product/2" >> >>
  /\ http.status = 200
  /\ "products" \in DOMAIN http.body
  /\ Len(http.body.products) = 2

\* C9: a bulk details lookup (ids parameter present) whose result list is
\* empty, because no id survives the format filter or because the catalog
\* resolves none of the ids, is answered 200 with an empty product list.
C9_EmptyResultIsSuccess ==
  ( /\ http.route = "details"
    /\ http.input # Null /\ Val(http.input) # << >>
    /\ \/ WellFormedAt(RequestedIds(http.input)) = {}
       \/ /\ http.result # Null
          /\ Val(http.result).kind = "data"
          /\ \A i \in 1..Len(Val(http.result).nodes) : Val(http.result).nodes[i] = Null )
  => /\ http.status = 200
     /\ http.body = [products |-> << >>]

\* The catalog was asked for two ids and resolved neither
C9_Witness ==
  /\ http.route = "details"
  /\ http.result # Null
  /\ Val(http.result).kind = "data"
  /\ Val(http.result).nodes = << Null, Null >>
  /\ http.status = 200
  /\ http.body = [products |-> << >>]

\* C10: when the catalog resolves only some of the ids, the lookup succeeds
\* and returns exactly the resolved products, in order, the unresolved entries
\* omitted.
C10_PartialResolution ==
  (http.route = "details" /\ http.result # Null /\ Val(http.result).kind = "data")
  => LET nodes == Val(http.result).nodes
         resolved == {i \in 1..Len(nodes) : nodes[i] # Null}
     IN /\ http.status = 200
        /\ DOMAIN http.body = {"products"}
        /\ Len(http.body.products) = Cardinality(resolved)
        /\ \A i \in resolved :
             http.body.products[Cardinality({j \in resolved : j <= i})] = Val(nodes[i])

\* Of three ids asked the catalog resolved the first and the last only
C10_Witness ==
  /\ http.route = "details"
  /\ http.result # Null
  /\ Val(http.result).kind = "data"
  /\ Len(Val(http.result).nodes) = 3
  /\ Val(http.result).nodes[1] # Null
  /\ Val(http.result).nodes[2] = Null
  /\ Val(http.result).nodes[3] # Null
  /\ http.status = 200
  /\ Len(http.body.products) = 2

\* The row a successful save left under the key it wrote, for the form held
SavedRow == CHOOSE r \in Stored(store, last.shop, Val(last.productId)) : TRUE

\* A save of the form held was just answered with success
SavedSubmitted ==
  /\ submitted # Null
  /\ last.op = "save"
  /\ last.status = 200
  /\ Stored(store, last.shop, Val(last.productId)) # {}

\* C11 as stated: each boolean out-of-stock field is stored true when the
\* form has an entry for it and false when it has none
C11_PresentStoredTrue ==
  SavedSubmitted =>
    \A f \in CheckboxFields : SavedRow[f] = (Val(submitted)[f] # Null)

\* C11: each boolean out-of-stock field is stored true when the form carries
\* the entry "on" for it, and false when the entry is absent or is any other
\* string
C11_OnStoredTrue ==
  SavedSubmitted =>
    \A f \in CheckboxFields :
      /\ Val(submitted)[f] = Some("on") => SavedRow[f] = TRUE
      /\ Val(submitted)[f] = Null => SavedRow[f] = FALSE
      /\ Val(submitted)[f] \notin {Null, Some("on")} => SavedRow[f] = FALSE

\* A saved form with one box checked, one absent and one carrying "true"
C11_Witness ==
  /\ SavedSubmitted
  /\ Val(submitted).noStockEnabled = Some("on")
  /\ Val(submitted).noStockTimerEnabled = Null
  /\ Val(submitted).noStockNotifyFormEnabled = Some("true")
  /\ SavedRow.noStockEnabled
  /\ ~SavedRow.noStockNotifyFormEnabled

\* C12: a save whose restock date entry is missing, empty or not a date
\* succeeds and stores the restock date as null
C12_BadDateStoredNull ==
  /\ submitted # Null
  /\ last.op = "save"
  /\ Val(submitted).noStockRestockDate \in {Null, Some(""), Some("not-a-date")}
  => /\ last.status = 200
     /\ Stored(store, last.shop, Val(last.productId)) # {}
     /\ SavedRow.noStockRestockDate = Null

\* A form whose restock date is no date was saved, the other fields stored
C12_Witness ==
  /\ SavedSubmitted
  /\ Val(submitted).noStockRestockDate = Some("not-a-date")
  /\ Val(submitted).noStockButtonText = Some("Notify me")
  /\ SavedRow.noStockButtonText = Some("Notify me")
  /\ SavedRow.noStockRestockDate = Null

\* C13: a save whose shop identifier is malformed or whose productId is
\* missing or empty is answered with a validation error (status 400 with an
\* error message), and no row is created or updated
C13_InvalidSaveRejected ==
  [][ /\ last'.op = "save"
      /\ last'.shop \notin Shops \/ ~Truthy(last'.productId)
      => /\ last'.status = 400
         /\ "error" \in DOMAIN last'.body
         /\ store' = store
         /\ nextId' = nextId ]_vars

\* A save without a usable productId was rejected while the table held a row
C13_Witness ==
  /\ last.op = "save"
  /\ last.shop \in Shops
  /\ last.productId = Some("")
  /\ last.status = 400
  /\ store # {}

\* The step answered a request that reached the storage: a save that passed
\* validation, a get with a productId, or a list
ReachedStorage(r) ==
  \/ r.op = "save" /\ r.shop \in Shops /\ Truthy(r.productId)
  \/ r.op = "get" /\ Truthy(r.productId)
  \/ r.op = "list"

\* The response carries an error message
HasErrorMessage(r) ==
  \/ "error" \in DOMAIN r.body /\ r.body.error # ""
  \/ "loaderError" \in DOMAIN r.body /\ r.body.loaderError # ""

\* C14: while the storage is unavailable, save, get and list each answer
\* with status 500 and an error message and leave the table unchanged; once
\* the storage answers again the same requests succeed
C14_StorageUnavailable ==
  [][ ReachedStorage(last')
      => /\ ~dbUp => /\ last'.status = 500
                     /\ HasErrorMessage(last')
                     /\ store' = store
                     /\ nextId' = nextId
         /\ dbUp => last'.status = 200 ]_vars

\* A list was refused while the table held a row for the shop
C14_Witness ==
  /\ ~dbUp
  /\ last.op = "list"
  /\ last.status = 500
  /\ \E r \in store : r.shop = last.shop

\* The updatedAt of the shop's row for a product id
ModifiedAt(st, shop, productId) ==
  (CHOOSE r \in Stored(st, shop, productId) : TRUE).updatedAt

\* C15: a list of a shop returns exactly the product ids that have a row
\* for the shop, each once, ordered by updatedAt descending; and after a save
\* that is later than every other row of the shop, every list the table can
\* give has the saved product first
C15_ListByRecency ==
  [][ /\ last'.op = "list" /\ last'.status = 200
         => LET ids == last'.body.configuredProductIds
                own == {r \in store' : r.shop = last'.shop}
            IN /\ {ids[i] : i \in 1..Len(ids)} = {r.productId : r \in own}
               /\ Len(ids) = Cardinality(own)
               /\ \A i, j \in 1..Len(ids) :
                    i < j => ModifiedAt(store', last'.shop, ids[i])
                               >= ModifiedAt(store', last'.shop, ids[j])
      /\ last'.op = "save" /\ last'.status = 200
         => LET shop == last'.shop
                saved == Val(last'.productId)
            IN (\A r \in store' : r.shop = shop /\ r.productId # saved
                                      => r.updatedAt < ModifiedAt(store', shop, saved))
               => \A rows \in FindManyByShop(store', shop) :
                    MapProductId(rows)[1] = saved ]_vars

\* The list has the product configured first at the front: it was saved
\* again after the product configured second
C15_Witness ==
  /\ last.op = "list"
  /\ last.status = 200
  /\ last.body.configuredProductIds =
       << "gid://shopify/Product/1", "gid://shopify/Product/2" >>
  /\ \E r1, r2 \in store :
       /\ r1.shop = last.shop /\ r2.shop = last.shop
       /\ r1.productId = "gid://shopify/Product/1" /\ r1.id = 1
       /\ r2.productId = "gid://shopify/Product/2" /\ r2.id = 2
       /\ r1.updatedAt = 1 /\ r2.updatedAt = 0

\* The step is the first successful save of a (shop, productId) pair
Creates(st, r) ==
  /\ r.op = "save"
  /\ r.status = 200
  /\ Stored(st, r.shop, Val(r.productId)) = {}

\* The row a creating step inserted
Created(st, r) == CHOOSE row \in Stored(st, r.shop, Val(r.productId)) : TRUE

\* The columns the action's write does not supply
UnsuppliedFields == PreorderFields \cup WarrantyFields

\* The unsupplied columns whose column default is a value
DefaultedFields == {"preorderPaymentType", "preorderTermsDisplay", "warrantyPriceType"}

\* A column of a row is disabled (a flag that is false) or unset (a nullable
\* column that is null)
DisabledOrUnset(row, f) ==
  IF f = "preorderEnabled" THEN row[f] = FALSE ELSE row[f] = Null

\* C16 as stated: in a row just created every flag and optional field the
\* write did not supply is false or unset
C16_UnsuppliedAllUnset ==
  [][ Creates(store, last')
      => \A f \in UnsuppliedFields :
           DisabledOrUnset(Created(store', last'), f) ]_vars

\* C16: in a row just created the preorder flag is false and the warranty
\* enabled override is unset, every other column the write did not supply
\* is unset, except preorderPaymentType, preorderTermsDisplay and
\* warrantyPriceType, which hold FULL, INLINE and GLOBAL_PERCENTAGE
C16_CreatedBlocksDisabled ==
  [][ Creates(store, last')
      => LET row == Created(store', last')
         IN /\ row.preorderEnabled = FALSE
            /\ row.warrantyEnabledOverride = Null
            /\ \A f \in UnsuppliedFields \ DefaultedFields :
                 DisabledOrUnset(row, f)
            /\ row.preorderPaymentType = Some("FULL")
            /\ row.preorderTermsDisplay = Some("INLINE")
            /\ row.warrantyPriceType = Some("GLOBAL_PERCENTAGE") ]_vars

\* A row was created for the second shop with its out-of-stock block
\* enabled by the write
C16_Witness ==
  /\ last.op = "save"
  /\ last.status = 200
  /\ last.shop = "b.myshopify.com"
  /\ \E r \in Stored(store, last.shop, Val(last.productId)) :
       /\ r.noStockEnabled
       /\ r.updatedAt = clock
       /\ ~r.preorderEnabled
       /\ r.preorderPaymentType = Some("FULL")

\* The ids of the subscriptions in a table
SubIds(st) == {r.id : r \in st}

\* The subscription of a table under an id it holds
SubAt(st, id) == CHOOSE r \in st : r.id = id

\* C17: a subscription enters the table in status PENDING; a step moves a
\* subscription only from PENDING to NOTIFIED or from PENDING to ERROR; a
\* subscription that is NOTIFIED or ERROR stays as it is, and none is removed
C17_StatusTransitions ==
  [][ /\ \A id \in SubIds(subs') \ SubIds(subs) :
           SubAt(subs', id).status = "PENDING"
      /\ SubIds(subs) \subseteq SubIds(subs')
      /\ \A id \in SubIds(subs) :
           LET before == SubAt(subs, id)
               after == SubAt(subs', id)
           IN \/ after = before
              \/ /\ before.status = "PENDING"
                 /\ after.status \in {"NOTIFIED", "ERROR"} ]_vars

\* Of two subscriptions one was notified and one ended in error
C17_Witness ==
  \E r1, r2 \in subs :
    /\ r1.status = "NOTIFIED" /\ r1.notifiedAt # Null
    /\ r2.status = "ERROR"
    /\ last.op \in {"markNotified", "markError"}
    /\ last.status = 409

\* C18: markNotified and markError on a subscription that is not PENDING
\* fail with an invalid-transition error and leave the table, so the
\* subscription's status and notifiedAt, unchanged
C18_InvalidTransitionFails ==
  [][ /\ last'.op \in {"markNotified", "markError"}
      /\ last'.body.id \in SubIds(subs)
      /\ SubAt(subs, last'.body.id).status # "PENDING"
      => /\ last'.status = 409
         /\ last'.body.error = "invalid transition"
         /\ SubAt(subs', last'.body.id).status = SubAt(subs, last'.body.id).status
         /\ SubAt(subs', last'.body.id).notifiedAt = SubAt(subs, last'.body.id).notifiedAt
         /\ subs' = subs ]_vars

\* markNotified was refused, at a later time, on a subscription already
\* NOTIFIED
C18_Witness ==
  /\ last.op = "markNotified"
  /\ last.status = 409
  /\ \E r \in subs : /\ r.id = last.body.id
                      /\ r.status = "NOTIFIED"
                      /\ r.notifiedAt = Some(0)
  /\ clock = 1

\* C19: subscribe succeeds whatever subscriptions the table holds, and adds
\* one PENDING subscription under an id no other has, so a second subscribe
\* with the same (shop, productId, email) gives a second subscription;
\* markNotified and markError change no subscription but the one named
C19_NoDeduplication ==
  [][ /\ last'.op = "subscribe"
         => /\ last'.status = 200
            /\ last'.body.id \notin SubIds(subs)
            /\ Cardinality(subs') = Cardinality(subs) + 1
            /\ subs \subseteq subs'
            /\ SubAt(subs', last'.body.id).status = "PENDING"
            /\ Cardinality(SubIds(subs')) = Cardinality(subs')
      /\ last'.op \in {"markNotified", "markError"}
         => \A r \in subs : r.id # last'.body.id => r \in subs' ]_vars

\* Two subscriptions with the same shop, product and email: the first was
\* notified, the second is still PENDING
C19_Witness ==
  \E r1, r2 \in subs :
    /\ r1.id = 1 /\ r2.id = 2
    /\ r1.shop = r2.shop
    /\ r1.productId = r2.productId
    /\ r1.customerEmail = r2.customerEmail
    /\ r1.status = "NOTIFIED"
    /\ r2.status = "PENDING"
    /\ last.op = "markNotified" /\ last.status = 200

\* C20: for a shop without a ShopSettings row and a product without a
\* ProductConfiguration row the resolved warranty is disabled, presented as
\* POPUP, and priced at 10.0 percent
C20_SystemDefaults ==
  /\ resolution # Null
  /\ GetShopDefaults(settings, Val(resolution).shop) = Null
  /\ Stored(store, Val(resolution).shop, Val(resolution).productId) = {}
  => /\ Val(resolution).config.enabled = FALSE
     /\ Val(resolution).config.presentation = "POPUP"
     /\ Val(resolution).config.priceType = "GLOBAL_PERCENTAGE"
     /\ Val(resolution).config.priceValue = Some(10)
     /\ Val(resolution).config.error = Null

\* The warranty of a product of the second shop was resolved while the
\* first shop had its own settings and an override
C20_Witness ==
  /\ resolution # Null
  /\ Val(resolution).shop = "b.myshopify.com"
  /\ \E r \in settings : r.warrantyEnabled /\ r.warrantyDefaultPercentage = Some(25)
  /\ \E r \in store : r.warrantyPresentationOverride = Some("EMBED")
  /\ ~Val(resolution).config.enabled
  /\ Val(resolution).config.priceValue = Some(10)

\* The ShopSettings row and the ProductConfiguration row the resolution
\* held in the state was computed from
ResolvedShopRow == GetShopDefaults(settings, Val(resolution).shop)
ResolvedOverrideRow ==
  FindUnique(store, Val(resolution).shop, Val(resolution).productId)

\* C21: the resolved enabled flag is the product's warrantyEnabledOverride
\* when it is set, true or false; else the shop's warrantyEnabled; else false
C21_OverrideWins ==
  resolution # Null =>
    LET enabled == Val(resolution).config.enabled
    IN IF ResolvedOverrideRow # Null
          /\ Val(ResolvedOverrideRow).warrantyEnabledOverride # Null
       THEN enabled = Val(Val(ResolvedOverrideRow).warrantyEnabledOverride)
       ELSE IF ResolvedShopRow # Null
       THEN enabled = Val(ResolvedShopRow).warrantyEnabled
       ELSE enabled = FALSE

\* The override says false where the shop says true: resolved disabled
C21_Witness ==
  /\ resolution # Null
  /\ ResolvedOverrideRow # Null
  /\ Val(ResolvedOverrideRow).warrantyEnabledOverride = Some(FALSE)
  /\ ResolvedShopRow # Null
  /\ Val(ResolvedShopRow).warrantyEnabled
  /\ ~Val(resolution).config.enabled

\* The price type the resolution goes by: the override's, or
\* GLOBAL_PERCENTAGE when the product has none
SelectedPriceType ==
  IF ResolvedOverrideRow # Null /\ Val(ResolvedOverrideRow).warrantyPriceType # Null
  THEN Val(Val(ResolvedOverrideRow).warrantyPriceType)
  ELSE "GLOBAL_PERCENTAGE"

\* The numeric value the selected price type requires, null when absent
RequiredPriceValue ==
  IF SelectedPriceType \in {"PRODUCT_PERCENTAGE", "PRODUCT_FIXED"}
  THEN Val(ResolvedOverrideRow).warrantyPriceValue
  ELSE IF ResolvedShopRow # Null
  THEN Val(ResolvedShopRow).warrantyDefaultPercentage
  ELSE SystemDefaults.warrantyDefaultPercentage

\* C22: the resolved price is the override's warrantyPriceValue for the
\* types PRODUCT_PERCENTAGE and PRODUCT_FIXED and the shop's
\* warrantyDefaultPercentage for GLOBAL_PERCENTAGE; when that value is absent
\* the resolution carries an error and no value in its place
C22_PriceResolution ==
  resolution # Null =>
    LET config == Val(resolution).config
    IN /\ config.priceType = SelectedPriceType
       /\ config.priceValue = RequiredPriceValue
       /\ RequiredPriceValue = Null => config.error # Null /\ config.priceValue = Null
       /\ RequiredPriceValue # Null => config.error = Null

\* A PRODUCT_FIXED override without a price value, in a shop whose default
\* percentage is 25: the resolution reports the error
C22_Witness ==
  /\ resolution # Null
  /\ ResolvedOverrideRow # Null
  /\ Val(ResolvedOverrideRow).warrantyPriceType = Some("PRODUCT_FIXED")
  /\ Val(ResolvedOverrideRow).warrantyPriceValue = Null
  /\ ResolvedShopRow # Null
  /\ Val(ResolvedShopRow).warrantyDefaultPercentage = Some(25)
  /\ Val(resolution).config.error # Null
  /\ Val(resolution).config.priceValue = Null

\* The nullable text columns of the out-of-stock block
TextFields == {"noStockButtonText", "noStockButtonColor",
               "noStockRecommendedProductGids"}

\* C24: after a successful save each of the eight out-of-stock columns of
\* the row holds what this request's form decodes to, whatever the row held
\* before: a checkbox column is true for "on" and false otherwise, a text
\* column holds the entry or null for a missing or empty one, the date column
\* the date or null; so a field left out of the form is reset
C24_BlockReplaced ==
  SavedSubmitted =>
    LET form == Val(submitted)
    IN /\ \A f \in CheckboxFields : SavedRow[f] = (form[f] = Some("on"))
       /\ \A f \in TextFields :
            SavedRow[f] = IF form[f] \in {Null, Some("")} THEN Null ELSE form[f]
       /\ SavedRow.noStockRestockDate =
            IF form.noStockRestockDate = Some("2025-12-24T00:00:00.000Z")
            THEN Some(20251224) ELSE Null
       /\ \A f \in CheckboxFields : form[f] = Null => SavedRow[f] = FALSE
       /\ \A f \in TextFields \cup {"noStockRestockDate"} :
            form[f] = Null => SavedRow[f] = Null

\* The row written earlier, with its out-of-stock block enabled and a button
\* text, was saved from a form that leaves both out: both are reset, the
\* preorder block is as it was
C24_Witness ==
  /\ SavedSubmitted
  /\ SavedRow.id = SeedRow.id
  /\ SavedRow.preorderEnabled
  /\ Val(submitted).noStockEnabled = Null
  /\ Val(submitted).noStockButtonText = Null
  /\ Val(submitted).noStockTimerEnabled = Some("on")
  /\ ~SavedRow.noStockEnabled
  /\ SavedRow.noStockButtonText = Null
  /\ SavedRow.noStockTimerEnabled

\* The configuration of a product without a row has just been loaded: the
\* load of configFetcher ends while the table holds no row for the product
\* asked for
LoadedWithoutRow ==
  /\ page.configFetcher.state = "loading"
  /\ page'.configFetcher.state = "idle"
  /\ dbUp
  /\ Stored(store, PageShop, Val(page.configFetcher.request)) = {}

StoredValue(config, field) ==
  IF field \in TextFields /\ config[field] = Some("") THEN Null ELSE config[field]

\* C25: encoding the form state in handleSave and decoding it in the save
\* action is a round trip for the out-of-stock block: after a successful
\* save the row of the selected product holds, for each of the eight
\* fields, the value of the form, except that an empty text is stored as
\* null.
C25_SaveRoundTrip ==
  (page.saveFetcher.state = "idle" /\ page.saveFetcher.data = Some([success |-> TRUE]))
  => \E row \in Stored(store, PageShop, Val(page.selectedProductId)) :
        \A field \in NoStockFields : row[field] = StoredValue(page.config, field)

\* A form with checked and unchecked boxes, an empty text, a filled text
\* and a date has been saved
C25_Witness ==
  /\ page.saveFetcher.state = "idle"
  /\ page.saveFetcher.data = Some([success |-> TRUE])
  /\ page.config.noStockEnabled
  /\ ~page.config.noStockTimerEnabled
  /\ page.config.noStockButtonText = Some("")
  /\ page.config.noStockButtonColor = Some("#FF0000")
  /\ page.config.noStockRestockDate = Some(20260115)

\* A save is submitted: the save fetcher leaves the idle state
Submits == page.saveFetcher.state = "idle" /\ page'.saveFetcher.state = "submitting"

\* C26: every save submitted for the selected product P carries the field
\* values of P's own stored configuration or of the form defaults: the
\* form never holds, when Save is pressed, the configuration loaded for a
\* product other than P, whichever way select, edit-click, the end of a
\* configuration load and Save interleave.
C26_SavesOwnValues ==
  [][Submits => page.configSource \in {Null, page.selectedProductId}]_vars

\* The product is shown in the configured-products list of the page
Listed(p, productId) ==
  \E i \in 1..Len(p.configuredProductDetails) :
     p.configuredProductDetails[i].id = productId

\* C27: every product shown in the configured-products list has a
\* configuration row of the shop in the store; selecting or edit-clicking
\* another product after a successful save does not put the product that
\* was not saved on the list.
C27_ListedHaveRow ==
  \A productId \in ProductIds :
     Listed(page, productId) => Stored(store, PageShop, productId) # {}

\* The save of the product ends in success while the product is selected
SavedSelected(productId) ==
  /\ page.saveFetcher.state = "submitting"
  /\ page'.saveFetcher.state = "idle"
  /\ page'.saveFetcher.data = Some([success |-> TRUE])
  /\ Val(page.saveFetcher.request).productId = Some(productId)
  /\ page'.selectedProductId = Some(productId)

\* No product id is on the list twice
NoDuplicates(p) ==
  \A i, j \in 1..Len(p.configuredProductDetails) :
     p.configuredProductDetails[i].id = p.configuredProductDetails[j].id => i = j

\* C28: a product whose save has succeeded is on the configured-products
\* list when the save ends, a listed product that has a row stays on the
\* list in every later step, the details response included, and the list
\* never holds a product id twice.
C28_SavedStaysListed ==
  [][/\ \A productId \in ProductIds :
          /\ SavedSelected(productId) => Listed(page', productId)
          /\ (Listed(page, productId) /\ Stored(store, PageShop, productId) # {})
               => Listed(page', productId)
     /\ NoDuplicates(page')]_vars

\* C29: the product search is debounced: an input change made while the
\* timer of an earlier change is pending cancels that timer, so at most one
\* search is pending at any time, and a query that is sent has at least
\* two characters.
C29_Debounced ==
  /\ Len(page.timers) <= 1
  /\ page.productFetcher.request # Null
       => StringLength(Val(page.productFetcher.request)) >= 2

\* A form is handed to the save fetcher
SubmitsForm ==
  /\ page'.saveFetcher.request # Null
  /\ page'.saveFetcher.request # page.saveFetcher.request

\* The user changes the search input: a timer is added
InputChanges == Len(page'.timers) = Len(page.timers) + 1

\* C30: a save is submitted only while a product is selected and the save
\* fetcher is idle, and it is submitted for the selected product, so no
\* save goes out without a product and no two saves are in flight at once;
\* an input change to a text other than the selected product's title
\* clears the selection and leaves the Save button disabled.
C30_SaveOnlyWhenSelectedAndIdle ==
  [][/\ SubmitsForm =>
          /\ page.selectedProductId # Null
          /\ page.saveFetcher.state = "idle"
          /\ Val(page'.saveFetcher.request).productId = page.selectedProductId
     /\ (/\ InputChanges
         /\ page.selectedProductInfo # Null
         /\ Val(page.selectedProductInfo).title # page'.inputValue)
          => /\ page'.selectedProductId = Null
             /\ SaveDisabled(page')]_vars

\* After a save has succeeded the user has typed a text other than the
\* product's title: the selection is gone while the save fetcher is idle
C30_Witness ==
  /\ page.saveFetcher.state = "idle"
  /\ page.saveFetcher.data = Some([success |-> TRUE])
  /\ page.selectedProductId = Null
  /\ page.inputValue = "sh"

====
